---- MODULE Spec2Model ----
(***************************************************************************)
(* Storage Inspector (src/popup.js): the popup's in-memory mirror of a     *)
(* page's localStorage, sessionStorage and cookies, the asynchronous       *)
(* adapter calls that load and mutate them, and the handlers that drive    *)
(* them.  JavaScript strings are sequences of one-character strings, so    *)
(* that startsWith, trim and JSON.parse are computed, not assumed.         *)
(***************************************************************************)
EXTENDS Integers, Sequences, FiniteSets, TLC

VARIABLES
  kvStore,        \* browser: tab id -> kind -> (key -> value), the pages' web storage
  cookieStore,    \* browser: hostname -> sequence of cookies
  activeTabId,    \* browser: the active tab of the current window
  savedState,     \* browser: chrome.storage.local inspectorState
  now,            \* browser: Date.now()
  openTabs,       \* browser: the tabs chrome.tabs.query({}) returns
  isFullscreen,   \* this.isFullscreen
  currentTab,     \* this.currentTab (the selected kind)
  currentTabId,   \* this.currentTabId
  currentUrl,     \* this.currentUrl
  browserTabs,    \* this.browserTabs
  data,           \* this.data (the mirror)
  searchQuery,    \* this.searchQuery
  theme,          \* data-theme attribute of the document
  bound,          \* bindEvents() has run: the DOM handlers exist
  autoSave,       \* startAutoSave() has run
  rendered,       \* the list last written by renderCurrentTab
  loading,        \* the loading indicator (showLoading)
  listShown,      \* the list is displayed (showLoading / showEmpty)
  toast,          \* the last toast shown
  tasks,          \* the async handlers in progress and their adapter calls in flight
  nOps,           \* number of user operations started
  nFail,          \* number of adapter calls that failed
  origin,         \* history: the context each entry of the mirror came from
  fnIn,           \* input of the pure-function specifications
  fnOut,          \* their result
  fnPc            \* their position

world == <<kvStore, cookieStore, activeTabId, savedState, now, openTabs>>
prog  == <<isFullscreen, currentTab, currentTabId, currentUrl, browserTabs,
           data, searchQuery, theme, bound, autoSave>>
view  == <<rendered, listShown, loading, toast>>
async == <<tasks, nOps, nFail>>
hist  == <<origin>>
pure  == <<fnIn, fnOut, fnPc>>
vars  == <<world, prog, view, async, hist, pure>>

\* Number of user operations (refresh, tab switch, save, delete, import) in one run.
MaxOps == 2
\* Number of handlers in progress (awaiting an adapter call) at the same time.
MaxActive == 2
\* Number of adapter calls that fail in one run.
MaxFail == 1
\* handlers in progress when an import is confirmed
MaxBesideImport == 0

-----------------------------------------------------------------------------
(* Values *)

NULL == "null"
NoTabId == 0
NoUrl == [scheme |-> "none", hostname |-> <<>>]
NoTab == [id |-> NoTabId, url |-> NoUrl]
NoState == [none |-> TRUE]
KV == {"localStorage", "sessionStorage"}
Kinds == {"localStorage", "sessionStorage", "cookies"}

Keys == {<<"a">>, <<"b">>}
Vals == {<<"1">>, <<"2">>}

EmptyMap == [k \in {} |-> <<>>]
Put(m, k, v) == [x \in (DOMAIN m) \cup {k} |-> IF x = k THEN v ELSE m[x]]
Del(m, k) == [x \in (DOMAIN m) \ {k} |-> m[x]]
Has(r, f) == f \in DOMAIN r

\* str.startsWith(p)
StartsWith(s, p) == Len(s) >= Len(p) /\ SubSeq(s, 1, Len(p)) = p

\* A URL as the fields the program reads: tab.url.startsWith('<scheme>://') and
\* new URL(tab.url).hostname / .origin / .protocol.
Url(scheme, host) == [scheme |-> scheme, hostname |-> host]
HostA == <<"a">>
HostB == <<"b">>
AllTabs ==
  << [id |-> 1, url |-> Url("https", HostA)],
     [id |-> 2, url |-> Url("https", HostB)],
     [id |-> 3, url |-> Url("chrome-extension", <<"x">>)] >>
TabIds == {AllTabs[i].id : i \in DOMAIN AllTabs}
PageTabs == {1, 2}

Cookie(name, value, domain) ==
  [name |-> name, value |-> value, domain |-> domain, path |-> <<"/">>,
   secure |-> FALSE, httpOnly |-> FALSE, sameSite |-> "unspecified"]

KvStore0 ==
  [t \in PageTabs |->
     IF t = 1
     THEN [localStorage |-> Put(EmptyMap, <<"a">>, <<"1">>),
           sessionStorage |-> Put(EmptyMap, <<"b">>, <<"1">>)]
     ELSE [localStorage |-> Put(EmptyMap, <<"b">>, <<"2">>),
           sessionStorage |-> EmptyMap]]
CookieStore0 ==
  [h \in {HostA, HostB} |->
     IF h = HostA THEN << Cookie(<<"c">>, <<"1">>, <<".", "a">>) >>
     ELSE << Cookie(<<"d">>, <<"2">>, HostB) >>]

EmptyData == [localStorage |-> EmptyMap, sessionStorage |-> EmptyMap, cookies |-> <<>>]
EmptyOf(kind) == IF kind = "cookies" THEN <<>> ELSE EmptyMap
\* the origin of an empty mirror: per key for the web storage kinds, one URL
\* for the cookies, which only loadCookies writes
NoOrigin == [localStorage |-> EmptyMap, sessionStorage |-> EmptyMap, cookies |-> NoUrl]
\* a kind whose entries were all loaded for context ctx
LoadedFrom(kind, entries, ctx) ==
  IF kind = "cookies" THEN ctx ELSE [k \in DOMAIN entries |-> ctx]
\* the context a kind is read from and written to
Ctx(kind) == IF kind \in KV THEN currentTabId ELSE currentUrl

-----------------------------------------------------------------------------
(* JSON.parse and JSON.stringify on strings as character sequences.        *)
(* Values: null, booleans, numbers, strings, arrays, objects (members in    *)
(* insertion order; a repeated key keeps its place and takes the last       *)
(* value).  Not modelled: \b \f \r \uXXXX escapes, the reordering of         *)
(* integer-like keys, and rounding of numbers beyond 15 significant digits.*)

Ws == {" ", "\n", "\t", "\r"}
Digits == {"0", "1", "2", "3", "4", "5", "6", "7", "8", "9"}
DigitVal(c) ==
  CASE c = "0" -> 0 [] c = "1" -> 1 [] c = "2" -> 2 [] c = "3" -> 3 [] c = "4" -> 4
    [] c = "5" -> 5 [] c = "6" -> 6 [] c = "7" -> 7 [] c = "8" -> 8 [] c = "9" -> 9
DigitChar(n) == <<"0", "1", "2", "3", "4", "5", "6", "7", "8", "9">>[n + 1]
Drop(s, n) == SubSeq(s, n + 1, Len(s))

JNull == [t |-> "null"]
JBool(b) == [t |-> "bool", b |-> b]
JNum(n) == [t |-> "num", n |-> n]
JStr(s) == [t |-> "str", s |-> s]
JArr(e) == [t |-> "arr", e |-> e]
JObj(m) == [t |-> "obj", m |-> m]

ParseFail == [ok |-> FALSE]
ParseOk(v, rest) == [ok |-> TRUE, val |-> v, rest |-> rest]

RECURSIVE SkipWs(_)
SkipWs(s) == IF s # <<>> /\ Head(s) \in Ws THEN SkipWs(Tail(s)) ELSE s

RECURSIVE LeadDigits(_)
LeadDigits(s) == IF s # <<>> /\ Head(s) \in Digits THEN 1 + LeadDigits(Tail(s)) ELSE 0

RECURSIVE DigitsToInt(_)
DigitsToInt(d) == IF d = <<>> THEN 0 ELSE 10 * DigitsToInt(SubSeq(d, 1, Len(d) - 1)) + DigitVal(d[Len(d)])

RECURSIVE IntToDigits(_)
IntToDigits(n) == IF n < 10 THEN <<DigitChar(n)>> ELSE Append(IntToDigits(n \div 10), DigitChar(n % 10))

RECURSIVE StripLeadingZeros(_)
StripLeadingZeros(d) == IF d # <<>> /\ Head(d) = "0" THEN StripLeadingZeros(Tail(d)) ELSE d

RECURSIVE StripTrailingZeros(_)
StripTrailingZeros(d) ==
  IF d # <<>> /\ d[Len(d)] = "0" THEN StripTrailingZeros(SubSeq(d, 1, Len(d) - 1)) ELSE d

Zeros(n) == [i \in 1 .. n |-> "0"]

\* The double a numeral denotes: 0.d * 10^p with d free of leading and trailing
\* zeros; beyond the range of a double it is Infinity, below it 0.
NumOf(neg, d, p) ==
  IF d = <<>> \/ p < -323 THEN [kind |-> "zero", neg |-> neg]
  ELSE IF p > 309 \/ (p = 309 /\ DigitVal(d[1]) >= 2) THEN [kind |-> "inf", neg |-> neg]
  ELSE [kind |-> "fin", neg |-> neg, d |-> d, p |-> p]
NumLead(neg, lead, exp) == NumOf(neg, StripTrailingZeros(lead), Len(lead) + exp)
NumValue(neg, digits, exp) == NumLead(neg, StripLeadingZeros(digits), exp)

\* JSON number: -? (0 | [1-9][0-9]*) (. [0-9]+)? ([eE] [+-]? [0-9]+)?
\* the exponent's digits: nExp of them at the head of s
NumExpDigits(neg, digits, nFrac, expNeg, s, nExp) ==
  IF nExp = 0 THEN ParseFail
  ELSE ParseOk(JNum(NumValue(neg, digits,
                 (IF expNeg THEN 0 - DigitsToInt(SubSeq(s, 1, nExp))
                  ELSE DigitsToInt(SubSeq(s, 1, nExp))) - nFrac)),
               Drop(s, nExp))
\* after "e" or "E"
NumExpSign(neg, digits, nFrac, s) ==
  IF s # <<>> /\ Head(s) \in {"+", "-"}
  THEN NumExpDigits(neg, digits, nFrac, Head(s) = "-", Tail(s), LeadDigits(Tail(s)))
  ELSE NumExpDigits(neg, digits, nFrac, FALSE, s, LeadDigits(s))
\* after the integer and fraction digits
NumExp(neg, digits, nFrac, s) ==
  IF s # <<>> /\ Head(s) \in {"e", "E"} THEN NumExpSign(neg, digits, nFrac, Tail(s))
  ELSE ParseOk(JNum(NumValue(neg, digits, 0 - nFrac)), s)
\* after ".": nFrac digits at the head of s
NumFracDigits(neg, int, s, nFrac) ==
  IF nFrac = 0 THEN ParseFail
  ELSE NumExp(neg, int \o SubSeq(s, 1, nFrac), nFrac, Drop(s, nFrac))
\* after the integer digits
NumFrac(neg, int, s) ==
  IF s # <<>> /\ Head(s) = "." THEN NumFracDigits(neg, int, Tail(s), LeadDigits(Tail(s)))
  ELSE NumExp(neg, int, 0, s)
\* nInt integer digits at the head of s
NumIntDigits(neg, s, nInt) ==
  IF nInt = 0 THEN ParseFail ELSE NumFrac(neg, SubSeq(s, 1, nInt), Drop(s, nInt))
\* after the sign
NumInt(neg, s) ==
  NumIntDigits(neg, s, IF s # <<>> /\ Head(s) = "0" THEN 1 ELSE LeadDigits(s))
ParseNumber(s) ==
  IF s # <<>> /\ Head(s) = "-" THEN NumInt(TRUE, Tail(s)) ELSE NumInt(FALSE, s)

Escapes == {"\"", "\\", "/", "n", "t"}
Unescape(c) == CASE c = "n" -> "\n" [] c = "t" -> "\t" [] OTHER -> c

RECURSIVE ParseChars(_, _)
\* the characters of a string literal after its opening quote
ParseChars(s, acc) ==
  IF s = <<>> THEN ParseFail
  ELSE IF Head(s) = "\"" THEN ParseOk(JStr(acc), Tail(s))
  ELSE IF Head(s) = "\\"
       THEN IF Len(s) >= 2 /\ s[2] \in Escapes
            THEN ParseChars(Drop(s, 2), Append(acc, Unescape(s[2])))
            ELSE ParseFail
  ELSE IF Head(s) \in {"\n", "\t", "\r"} THEN ParseFail
  ELSE ParseChars(Tail(s), Append(acc, Head(s)))

\* obj[key] = val on the members of an object
SetMember(m, key, val) ==
  IF \E i \in DOMAIN m : m[i].k = key
  THEN [i \in DOMAIN m |-> IF m[i].k = key THEN [k |-> key, v |-> val] ELSE m[i]]
  ELSE Append(m, [k |-> key, v |-> val])

RECURSIVE ParseValue(_), ParseElements(_, _), ParseMembers(_, _)
\* after "{" and white space
ParseObject(s) ==
  IF s # <<>> /\ Head(s) = "}" THEN ParseOk(JObj(<<>>), Tail(s)) ELSE ParseMembers(s, <<>>)
\* after "[" and white space
ParseArray(s) ==
  IF s # <<>> /\ Head(s) = "]" THEN ParseOk(JArr(<<>>), Tail(s)) ELSE ParseElements(s, <<>>)
\* a value at the head of s
ParseAt(s) ==
  IF s = <<>> THEN ParseFail
  ELSE IF Head(s) = "{" THEN ParseObject(SkipWs(Tail(s)))
  ELSE IF Head(s) = "[" THEN ParseArray(SkipWs(Tail(s)))
  ELSE IF Head(s) = "\"" THEN ParseChars(Tail(s), <<>>)
  ELSE IF StartsWith(s, <<"t", "r", "u", "e">>) THEN ParseOk(JBool(TRUE), Drop(s, 4))
  ELSE IF StartsWith(s, <<"f", "a", "l", "s", "e">>) THEN ParseOk(JBool(FALSE), Drop(s, 5))
  ELSE IF StartsWith(s, <<"n", "u", "l", "l">>) THEN ParseOk(JNull, Drop(s, 4))
  ELSE IF Head(s) = "-" \/ Head(s) \in Digits THEN ParseNumber(s)
  ELSE ParseFail
ParseValue(s) == ParseAt(SkipWs(s))

\* after an element: "]" or "," and the next one
ElementsNext(s, acc) ==
  IF s = <<>> THEN ParseFail
  ELSE IF Head(s) = "]" THEN ParseOk(JArr(acc), Tail(s))
  ELSE IF Head(s) = "," THEN ParseElements(Tail(s), acc)
  ELSE ParseFail
\* r is the element parsed
ElementsAfter(r, acc) ==
  IF ~r.ok THEN ParseFail ELSE ElementsNext(SkipWs(r.rest), Append(acc, r.val))
\* the elements of an array after "[", acc the elements read so far
ParseElements(s, acc) == ElementsAfter(ParseValue(s), acc)

\* after a member: "}" or "," and the next one
MembersNext(s, acc) ==
  IF s = <<>> THEN ParseFail
  ELSE IF Head(s) = "}" THEN ParseOk(JObj(acc), Tail(s))
  ELSE IF Head(s) = "," THEN ParseMembers(Tail(s), acc)
  ELSE ParseFail
\* r is the member's value parsed
MemberValue(key, r, acc) ==
  IF ~r.ok THEN ParseFail ELSE MembersNext(SkipWs(r.rest), SetMember(acc, key, r.val))
\* after the member's key
MemberColon(key, s, acc) ==
  IF s = <<>> \/ Head(s) # ":" THEN ParseFail
  ELSE MemberValue(key, ParseValue(Tail(s)), acc)
\* k is the member's key parsed
MemberKey(k, acc) ==
  IF ~k.ok THEN ParseFail ELSE MemberColon(k.val.s, SkipWs(k.rest), acc)
MembersAt(s, acc) ==
  IF s = <<>> \/ Head(s) # "\"" THEN ParseFail
  ELSE MemberKey(ParseChars(Tail(s), <<>>), acc)
\* the members of an object after "{", acc the members read so far
ParseMembers(s, acc) == MembersAt(SkipWs(s), acc)

\* a value and nothing but white space after it
ParseEnd(r) ==
  IF r.ok /\ SkipWs(r.rest) = <<>> THEN [ok |-> TRUE, val |-> r.val] ELSE ParseFail
\* JSON.parse(text)
JsonParse(text) == ParseEnd(ParseValue(text))

\* Number::toString, and JSON.stringify's null for a non-finite number
NumToString(n) ==
  IF n.kind = "inf" THEN <<"n", "u", "l", "l">>
  ELSE IF n.kind = "zero" THEN <<"0">>
  ELSE LET k == Len(n.d)
           body ==
             IF k <= n.p /\ n.p <= 21 THEN n.d \o Zeros(n.p - k)
             ELSE IF 0 < n.p /\ n.p <= 21
                  THEN SubSeq(n.d, 1, n.p) \o <<".">> \o Drop(n.d, n.p)
             ELSE IF -6 < n.p /\ n.p <= 0 THEN <<"0", ".">> \o Zeros(0 - n.p) \o n.d
             ELSE (IF k = 1 THEN n.d ELSE <<n.d[1], ".">> \o Tail(n.d))
                  \o <<"e">> \o (IF n.p - 1 < 0 THEN <<"-">> ELSE <<"+">>)
                  \o IntToDigits(IF n.p - 1 < 0 THEN 1 - n.p ELSE n.p - 1)
       IN (IF n.neg THEN <<"-">> ELSE <<>>) \o body

RECURSIVE QuoteChars(_)
QuoteChars(s) ==
  IF s = <<>> THEN <<>>
  ELSE (CASE Head(s) = "\"" -> <<"\\", "\"">>
          [] Head(s) = "\\" -> <<"\\", "\\">>
          [] Head(s) = "\n" -> <<"\\", "n">>
          [] Head(s) = "\t" -> <<"\\", "t">>
          [] OTHER -> <<Head(s)>>) \o QuoteChars(Tail(s))
Quote(s) == <<"\"">> \o QuoteChars(s) \o <<"\"">>

RECURSIVE JsonStringify(_), StringifyElements(_), StringifyMembers(_)
\* JSON.stringify(value) with no indent
JsonStringify(v) ==
  CASE v.t = "null" -> <<"n", "u", "l", "l">>
    [] v.t = "bool" -> IF v.b THEN <<"t", "r", "u", "e">> ELSE <<"f", "a", "l", "s", "e">>
    [] v.t = "num" -> NumToString(v.n)
    [] v.t = "str" -> Quote(v.s)
    [] v.t = "arr" -> <<"[">> \o StringifyElements(v.e) \o <<"]">>
    [] v.t = "obj" -> <<"{">> \o StringifyMembers(v.m) \o <<"}">>
StringifyElements(e) ==
  IF e = <<>> THEN <<>>
  ELSE JsonStringify(Head(e)) \o (IF Len(e) > 1 THEN <<",">> ELSE <<>>) \o StringifyElements(Tail(e))
StringifyMembers(m) ==
  IF m = <<>> THEN <<>>
  ELSE Quote(Head(m).k) \o <<":">> \o JsonStringify(Head(m).v)
       \o (IF Len(m) > 1 THEN <<",">> ELSE <<>>) \o StringifyMembers(Tail(m))

\* typeof result === 'object' && result !== null
IsObject(r) == r.ok /\ r.val.t \in {"arr", "obj"}
\* isJson(str): it parses, to an object or an array
isJson(str) == IsObject(JsonParse(str))

\* JSON.stringify(JSON.parse(value))
Reserialized(r) == JsonStringify(r.val)
\* saveItem's "Minify JSON if valid"
Minify(value) == IF isJson(value) THEN Reserialized(JsonParse(value)) ELSE value

-----------------------------------------------------------------------------
(* Strings and cookies *)

\* str.trim()
RECURSIVE TrimEnd(_)
TrimEnd(s) == IF s # <<>> /\ s[Len(s)] \in Ws THEN TrimEnd(SubSeq(s, 1, Len(s) - 1)) ELSE s
Trim(s) == TrimEnd(SkipWs(s))

Lax == <<"l", "a", "x">>
Slash == <<"/">>
NoFields == [f \in {} |-> <<>>]

\* x.f is present and truthy: not undefined, "", false or 0
Truthy(x, f) ==
  /\ Has(x, f)
  /\ CASE f \in {"secure", "httpOnly"} -> x[f]
       [] f = "expirationDate" -> x[f] # 0
       [] OTHER -> x[f] # <<>>
OrElse(x, f, dflt) == IF Truthy(x, f) THEN x[f] ELSE dflt

\* domain.startsWith('.') ? domain.substring(1) : domain
\* a faulty variant: the leading dot is kept
StripDotNone(domain) == domain
StripDot(domain) == IF StartsWith(domain, <<".">>) THEN Tail(domain) ELSE domain

\* setCookie's domain rule: the domain attribute of the write, if any
WriteDomain(d, url) ==
  IF Truthy(d, "domain") /\ StripDot(d.domain) # url.hostname
  THEN [domain |-> StripDot(d.domain)]
  ELSE NoFields

\* setCookie's expiry rule: the expirationDate attribute of the write, if any
WriteExpiry(d) ==
  IF Truthy(d, "expirationDate") THEN [expirationDate |-> d.expirationDate] ELSE NoFields

\* the object setCookie(data) hands to chrome.cookies.set under this.currentUrl = url
CookieWrite(d, url) ==
  [url |-> url, name |-> d.name, value |-> d.value,
   path |-> OrElse(d, "path", Slash),
   secure |-> OrElse(d, "secure", FALSE),
   httpOnly |-> OrElse(d, "httpOnly", FALSE),
   sameSite |-> OrElse(d, "sameSite", Lax)]
  @@ WriteDomain(d, url) @@ WriteExpiry(d)

-----------------------------------------------------------------------------
(* The import payload *)

LocalStorageName == <<"l", "o", "c", "a", "l", "S", "t", "o", "r", "a", "g", "e">>
SessionStorageName == <<"s", "e", "s", "s", "i", "o", "n", "S", "t", "o", "r", "a", "g", "e">>
CookiesName == <<"c", "o", "o", "k", "i", "e", "s">>
KindChars(kind) ==
  CASE kind = "localStorage" -> LocalStorageName
    [] kind = "sessionStorage" -> SessionStorageName
    [] kind = "cookies" -> CookiesName
KindOrder == <<"localStorage", "sessionStorage", "cookies">>

CookieFields == {"name", "value", "domain", "path", "secure", "httpOnly", "sameSite",
                 "expirationDate"}
FieldChars(f) ==
  CASE f = "name" -> <<"n", "a", "m", "e">>
    [] f = "value" -> <<"v", "a", "l", "u", "e">>
    [] f = "domain" -> <<"d", "o", "m", "a", "i", "n">>
    [] f = "path" -> <<"p", "a", "t", "h">>
    [] f = "secure" -> <<"s", "e", "c", "u", "r", "e">>
    [] f = "httpOnly" -> <<"h", "t", "t", "p", "O", "n", "l", "y">>
    [] f = "sameSite" -> <<"s", "a", "m", "e", "S", "i", "t", "e">>
    [] f = "expirationDate" ->
         <<"e", "x", "p", "i", "r", "a", "t", "i", "o", "n", "D", "a", "t", "e">>

JUndefined == [t |-> "undefined"]
\* value[key] of a parsed JSON value
Member(v, key) ==
  IF v.t = "obj" /\ \E i \in DOMAIN v.m : v.m[i].k = key
  THEN v.m[CHOOSE i \in DOMAIN v.m : v.m[i].k = key].v
  ELSE JUndefined
\* JavaScript truthiness of a parsed JSON value
JTruthy(v) ==
  CASE v.t \in {"undefined", "null"} -> FALSE
    [] v.t = "bool" -> v.b
    [] v.t = "num" -> v.n.kind # "zero"
    [] v.t = "str" -> v.s # <<>>
    [] OTHER -> TRUE
\* the string a value is stored as (the payload's values are strings)
ValueString(v) == IF v.t = "str" THEN v.s ELSE JsonStringify(v)
NumToInt(n) ==
  IF n.kind = "fin" /\ n.p >= Len(n.d)
  THEN (IF n.neg THEN -1 ELSE 1) * DigitsToInt(n.d \o Zeros(n.p - Len(n.d)))
  ELSE 0
\* Object.entries(obj) as key/value pairs
Entries(v) ==
  CASE v.t = "obj" -> [i \in DOMAIN v.m |-> [k |-> v.m[i].k, v |-> ValueString(v.m[i].v)]]
    [] v.t = "arr" -> [i \in DOMAIN v.e |-> [k |-> IntToDigits(i - 1), v |-> ValueString(v.e[i])]]
    [] v.t = "str" -> [i \in DOMAIN v.s |-> [k |-> IntToDigits(i - 1), v |-> <<v.s[i]>>]]
    [] OTHER -> <<>>
\* a cookie object of the payload as the data setCookie reads
CookieData(v) ==
  [f \in {g \in CookieFields : Member(v, FieldChars(g)).t \notin {"undefined", "null"}} |->
     LET x == Member(v, FieldChars(f)) IN
     CASE x.t = "str" -> x.s
       [] x.t = "bool" -> x.b
       [] x.t = "num" -> NumToInt(x.n)
       [] OTHER -> <<>>]

\* if (importData.<kind>) [&& Array.isArray(importData.cookies)]
\* a faulty variant: the cookies field is not tested for being an array
PayloadHasLoose(p, kind) == JTruthy(Member(p, KindChars(kind)))
PayloadHas(p, kind) ==
  /\ JTruthy(Member(p, KindChars(kind)))
  /\ kind = "cookies" => Member(p, KindChars(kind)).t = "arr"
\* the entries the write loop of a kind goes through
PayloadEntries(p, kind) ==
  LET v == Member(p, KindChars(kind)) IN
  IF kind # "cookies" THEN Entries(v)
  ELSE IF v.t = "arr" THEN [i \in DOMAIN v.e |-> CookieData(v.e[i])] ELSE <<>>

RECURSIVE SetToSeq(_)
SetToSeq(S) ==
  IF S = {} THEN <<>>
  ELSE LET x == CHOOSE x \in S : TRUE IN <<x>> \o SetToSeq(S \ {x})
\* the keys the remove loop of a kind goes through
\* a faulty variant: replace mode removes nothing
MirrorKeysNone(d, kind) == <<>>
MirrorKeys(d, kind) ==
  IF kind = "cookies" THEN [i \in DOMAIN d.cookies |-> d.cookies[i].name]
  ELSE SetToSeq(DOMAIN d[kind])

\* the remove loop of a kind: nothing when merging, else the mirror's keys
\* a faulty variant: only the first mirrored entry is removed
RemoveTodoFirst(d, kind, merge) ==
  IF merge \/ MirrorKeys(d, kind) = <<>> THEN <<>> ELSE <<Head(MirrorKeys(d, kind))>>
RemoveTodo(d, kind, merge) == IF merge THEN <<>> ELSE MirrorKeys(d, kind)
\* the write loop of a kind: the payload's entries in their order
\* a faulty variant: the entries are written last to first
WriteTodoReversed(p, kind) ==
  [i \in DOMAIN PayloadEntries(p, kind) |->
     PayloadEntries(p, kind)[Len(PayloadEntries(p, kind)) + 1 - i]]
WriteTodo(p, kind) == PayloadEntries(p, kind)

\* confirmImport's position: the first loop with something to do, from the
\* start of (ki, phase) on; ki = 4 when all three kinds are through
RECURSIVE ImportSeek(_, _, _, _, _)
ImportSeek(d, p, merge, ki, phase) ==
  IF ki > 3 THEN [ki |-> 4, phase |-> "end", todo |-> <<>>]
  ELSE LET kind == KindOrder[ki] IN
       IF ~PayloadHas(p, kind) THEN ImportSeek(d, p, merge, ki + 1, "remove")
       ELSE IF phase = "remove"
            THEN LET todo == RemoveTodo(d, kind, merge) IN
                 IF todo # <<>> THEN [ki |-> ki, phase |-> "remove", todo |-> todo]
                 ELSE ImportSeek(d, p, merge, ki, "set")
            ELSE LET todo == WriteTodo(p, kind) IN
                 IF todo # <<>> THEN [ki |-> ki, phase |-> "set", todo |-> todo]
                 ELSE ImportSeek(d, p, merge, ki + 1, "remove")

Q(str) == <<"\"">> \o str \o <<"\"">>
KvText(kind, k, v) ==
  Q(KindChars(kind)) \o <<":", "{">> \o Q(k) \o <<":">> \o Q(v) \o <<"}">>
CookieText(name, value, domain) ==
  Q(CookiesName) \o <<":", "[", "{">> \o Q(FieldChars("name")) \o <<":">> \o Q(name)
  \o <<",">> \o Q(FieldChars("value")) \o <<":">> \o Q(value)
  \o <<",">> \o Q(FieldChars("domain")) \o <<":">> \o Q(domain) \o <<"}", "]">>
TextLocal == <<"{">> \o KvText("localStorage", <<"b">>, <<"2">>) \o <<"}">>
TextOthers ==
  <<"{">> \o KvText("sessionStorage", <<"a">>, <<"1">>) \o <<",">>
  \o CookieText(<<"c">>, <<"2">>, <<".", "a">>) \o <<"}", " ">>
TextTwo ==
  <<"{">> \o Q(LocalStorageName) \o <<":", "{">> \o Q(<<"b">>) \o <<":">> \o Q(<<"2">>)
  \o <<",">> \o Q(<<"a">>) \o <<":">> \o Q(<<"2">>) \o <<"}", "}">>
TextNoArray == <<"{">> \o Q(CookiesName) \o <<":", "{", "}", "}">>
TextBlank == <<" ">>
TextBroken == <<"{">> \o Q(LocalStorageName) \o <<":">>
TextNull == <<"n", "u", "l", "l">>
\* what the user may paste into the import box
ImportTexts == {TextLocal, TextOthers, TextTwo, TextNoArray, TextBlank, TextBroken, TextNull}

-----------------------------------------------------------------------------
(* Adapter calls in flight.  A call is sent by the program; the browser      *)
(* executes it at some later moment (phase "done", its effect applied and   *)
(* its result taken) and the answer is delivered to the awaiting            *)
(* continuation at some moment after that.  A call that fails has no        *)
(* effect: its rejection is delivered while the call is still "sent".       *)

Slots == {"localStorage", "sessionStorage", "cookies", "call"}
NoReq == [api |-> "none", phase |-> "none"]
NoReqs == [s \in Slots |-> NoReq]
Req(api, ctx, type, key, val) ==
  [api |-> api, ctx |-> ctx, type |-> type, key |-> key, val |-> val,
   phase |-> "sent", res |-> <<>>]
Delivered == [api |-> "none", phase |-> "delivered"]
\* the answer of call r that can be delivered now: resolved (ok) or rejected
Answered(r, ok) == IF ok THEN r.phase = "done" ELSE r.phase = "sent" /\ nFail < MaxFail
Count(ok) == IF ok THEN nFail ELSE nFail + 1

IdleTask == [op |-> "none", pc |-> "idle", reqs |-> NoReqs, args |-> <<>>, failed |-> {}, ret |-> "none"]
TaskIds == 0 .. MaxOps

-----------------------------------------------------------------------------
(* Synchronous helpers of the program *)

Lower(c) == CASE c = "A" -> "a" [] c = "B" -> "b" [] OTHER -> c
ToLowerCase(s) == [i \in DOMAIN s |-> Lower(s[i])]
Includes(s, q) ==
  \E i \in 0 .. (Len(s) - Len(q)) : SubSeq(s, i + 1, i + Len(q)) = q

\* matchSearch(key, value) under this.searchQuery = q
\* a faulty variant: only the key is searched
matchSearchKey(q, key, value) ==
  IF q = <<>> THEN TRUE ELSE Includes(ToLowerCase(key), ToLowerCase(q))
matchSearch(q, key, value) ==
  IF q = <<>> THEN TRUE
  ELSE Includes(ToLowerCase(key), ToLowerCase(q))
       \/ Includes(ToLowerCase(value), ToLowerCase(q))

\* renderCurrentTab: the keys/names written to the list
\* a faulty variant: the list is written without the search filter
RenderListUnfiltered(d, kind, q) ==
  [kind |-> kind,
   items |-> IF kind = "cookies" THEN {d.cookies[i].name : i \in DOMAIN d.cookies}
             ELSE DOMAIN d[kind]]
RenderList(d, kind, q) ==
  [kind |-> kind,
   items |-> IF kind = "cookies"
             THEN {d.cookies[i].name : i \in {j \in DOMAIN d.cookies :
                      matchSearch(q, d.cookies[j].name, d.cookies[j].value)}}
             ELSE {k \in DOMAIN d[kind] : matchSearch(q, k, d[kind][k])}]

\* the snapshot saveState writes to chrome.storage.local
StateSnapshot(ct, tid, url, q, th, t) ==
  [currentTab |-> ct, currentTabId |-> tid, currentUrl |-> url,
   searchQuery |-> q, theme |-> th, lastSaved |-> t]

Toast(msg) == [msg |-> msg, n |-> 0]

\* the tab filter of loadBrowserTabs
Listable(tab) ==
  /\ tab.url # NoUrl
  /\ tab.url.scheme \notin {"chrome", "chrome-extension", "edge", "about"}
\* the inspectability test of getCurrentTab
\* a faulty variant: every tab with a URL passes
InspectableAny(tab) == tab # NoTab /\ tab.url # NoUrl
Inspectable(tab) ==
  /\ tab # NoTab
  /\ tab.url # NoUrl
  /\ tab.url.scheme \notin {"chrome", "chrome-extension"}

\* the three loads loadAllData issues: loadWebStorage reads this.currentTabId,
\* loadCookies reads this.currentUrl.origin, each when it is called
LoadReqs(tid, url) ==
  [s \in Slots |->
     CASE s \in KV -> Req("storage.read", tid, s, <<>>, <<>>)
       [] s = "cookies" -> Req("cookies.getAll", url, s, <<>>, <<>>)
       [] OTHER -> NoReq]

\* what a delivered load writes into this.data[kind]
\* a faulty variant: a failed load keeps the old mirror
LoadResultKeeps(kind, r, ok) == IF ok THEN r.res ELSE data[kind]
LoadResult(kind, r, ok) == IF ok THEN r.res ELSE EmptyOf(kind)

Call(r) == [NoReqs EXCEPT !["call"] = r]
DoneTask(tk) == [tk EXCEPT !.pc = "done"]

-----------------------------------------------------------------------------
(* The browser executes a call in flight *)

CookieJar(url) == cookieStore[url.hostname]

\* chrome.cookies.set: the cookie the store keeps for a write.  A write with a
\* domain makes a domain cookie (stored with a leading dot), one without makes
\* a host-only cookie of the url's host.
StoredCookie(w) ==
  [name |-> w.name, value |-> w.value,
   domain |-> IF Has(w, "domain") THEN <<".">> \o w.domain ELSE w.url.hostname,
   path |-> w.path, secure |-> w.secure, httpOnly |-> w.httpOnly,
   sameSite |-> w.sameSite]
  @@ (IF Has(w, "expirationDate") THEN [expirationDate |-> w.expirationDate] ELSE NoFields)
SameCookie(c, e) == c.name = e.name /\ c.domain = e.domain /\ c.path = e.path
\* a write whose expiry has passed deletes the cookie instead
Expired(w) == Has(w, "expirationDate") /\ w.expirationDate * 1000 <= now
CookieStoreSet(jar, w) ==
  LET c == StoredCookie(w)
      others == SelectSeq(jar, LAMBDA e : ~SameCookie(c, e))
  IN IF Expired(w) THEN others
     ELSE IF \E i \in DOMAIN jar : SameCookie(c, jar[i])
          THEN [i \in DOMAIN jar |-> IF SameCookie(c, jar[i]) THEN c ELSE jar[i]]
          ELSE Append(jar, c)
\* chrome.cookies.remove({url, name}): the first cookie of that name goes
CookieStoreRemove(jar, name) ==
  IF \E i \in DOMAIN jar : jar[i].name = name
  THEN LET i == CHOOSE i \in DOMAIN jar :
                  jar[i].name = name /\ \A j \in 1 .. (i - 1) : jar[j].name # name
       IN SubSeq(jar, 1, i - 1) \o SubSeq(jar, i + 1, Len(jar))
  ELSE jar

ReadResult(r) ==
  CASE r.api = "storage.read" -> kvStore[r.ctx][r.type]
    [] r.api = "cookies.getAll" -> CookieJar(r.ctx)
    [] r.api = "tabs.query" -> openTabs
    [] r.api = "tabs.queryActive" -> SelectSeq(openTabs, LAMBDA tab : tab.id = activeTabId)
    [] r.api = "storage.get" -> savedState
    [] OTHER -> <<>>

Exec(t, s) ==
  LET r == tasks[t].reqs[s] IN
  /\ r.phase = "sent"
  /\ tasks' = [tasks EXCEPT ![t].reqs[s] =
                 [r EXCEPT !.phase = "done", !.res = ReadResult(r)]]
  /\ kvStore' =
       CASE r.api = "storage.setItem" ->
              [kvStore EXCEPT ![r.ctx][r.type] = Put(@, r.key, r.val)]
         [] r.api = "storage.removeItem" ->
              [kvStore EXCEPT ![r.ctx][r.type] = Del(@, r.key)]
         [] OTHER -> kvStore
  /\ cookieStore' =
       CASE r.api = "cookies.set" ->
              [cookieStore EXCEPT ![r.ctx.hostname] = CookieStoreSet(@, r.val)]
         [] r.api = "cookies.remove" ->
              [cookieStore EXCEPT ![r.ctx.hostname] = CookieStoreRemove(@, r.key)]
         [] OTHER -> cookieStore
  /\ UNCHANGED <<activeTabId, savedState, now, openTabs, prog, view, nOps, nFail, hist, pure>>

-----------------------------------------------------------------------------
(* init() *)

HourMs == 3600000

Init ==
  /\ kvStore = KvStore0
  /\ cookieStore = CookieStore0
  /\ \E w \in {<<FALSE, 1>>, <<FALSE, 3>>, <<TRUE, 3>>} :
        isFullscreen = w[1] /\ activeTabId = w[2]
  /\ savedState = NoState
  /\ now = HourMs
  /\ openTabs = AllTabs
  /\ origin = NoOrigin
  /\ currentTab = "localStorage"
  /\ currentTabId = NoTabId
  /\ currentUrl = NoUrl
  /\ browserTabs = <<>>
  /\ data = EmptyData
  /\ searchQuery = <<>>
  /\ theme = "dark"
  /\ bound = FALSE
  /\ autoSave = FALSE
  /\ rendered = [kind |-> "none", items |-> {}]
  /\ loading = TRUE
  /\ listShown = FALSE
  /\ toast = Toast("none")
  /\ tasks = [t \in TaskIds |->
                IF t = 0
                THEN [op |-> "init", pc |-> "restoreState",
                      reqs |-> Call(Req("storage.get", NoTabId, "", <<>>, <<>>)),
                      args |-> <<>>, failed |-> {}, ret |-> "none"]
                ELSE IdleTask]
  /\ nOps = 0
  /\ nFail = 0
  /\ fnIn = <<>>
  /\ fnOut = <<>>
  /\ fnPc = "off"

\* restoreState's continuation, then getCurrentTab up to its tabs.query
RestoreStateDone(ok) ==
  LET tk == tasks[0]
      r == tk.reqs["call"]
      st == IF ok THEN r.res ELSE NoState
      fresh == Has(st, "lastSaved") /\ st.lastSaved # 0 /\ st.lastSaved > now - HourMs
  IN
  /\ tk.pc = "restoreState"
  /\ Answered(r, ok)
  /\ currentTab' = IF fresh THEN st.currentTab ELSE currentTab
  /\ searchQuery' = IF fresh THEN st.searchQuery ELSE searchQuery
  /\ theme' = IF fresh /\ st.theme # "" THEN st.theme ELSE theme
  /\ tasks' = [tasks EXCEPT ![0] =
                 [tk EXCEPT !.pc = "getCurrentTab",
                            !.reqs = Call(Req("tabs.queryActive", NoTabId, "", <<>>, <<>>))]]
  /\ nFail' = Count(ok)
  /\ UNCHANGED <<world, isFullscreen, currentTabId, currentUrl, browserTabs, data,
                 bound, autoSave, view, nOps, hist, pure>>

\* init's catch and finally
InitFails ==
  /\ toast' = Toast("Failed to initialize")
  /\ loading' = FALSE
  /\ tasks' = [tasks EXCEPT ![0] = [DoneTask(tasks[0]) EXCEPT !.pc = "failed"]]
  /\ UNCHANGED <<world, prog, rendered, listShown, nOps, hist, pure>>

\* init after getCurrentTab bound the context to tab
InitBinds(tab) ==
  /\ currentTabId' = tab.id
  /\ currentUrl' = tab.url
  /\ IF isFullscreen
     THEN /\ tasks' = [tasks EXCEPT ![0] =
                         [tasks[0] EXCEPT !.pc = "loadBrowserTabs",
                            !.reqs = Call(Req("tabs.query", NoTabId, "", <<>>, <<>>))]]
          /\ UNCHANGED bound
     ELSE /\ bound' = TRUE
          /\ tasks' = [tasks EXCEPT ![0] =
                         [tasks[0] EXCEPT !.pc = "loadAllData",
                            !.reqs = LoadReqs(tab.id, tab.url)]]
  /\ UNCHANGED <<world, isFullscreen, currentTab, browserTabs, data, searchQuery,
                 theme, autoSave, view, nOps, hist, pure>>

\* getCurrentTab after tabs.query({active, currentWindow})
GetCurrentTabDone(ok) ==
  LET tk == tasks[0]
      r == tk.reqs["call"]
      tab == IF ok /\ r.res # <<>> THEN r.res[1] ELSE NoTab
  IN
  /\ tk.pc = "getCurrentTab"
  /\ Answered(r, ok)
  /\ nFail' = Count(ok)
  /\ IF ok /\ ~Inspectable(tab) /\ isFullscreen
     THEN /\ tasks' = [tasks EXCEPT ![0] =
                         [tk EXCEPT !.pc = "getCurrentTab.all",
                            !.reqs = Call(Req("tabs.query", NoTabId, "", <<>>, <<>>))]]
          /\ UNCHANGED <<world, prog, view, nOps, hist, pure>>
     ELSE IF ok /\ Inspectable(tab) THEN InitBinds(tab) ELSE InitFails

\* getCurrentTab after the fullscreen fallback tabs.query({})
GetCurrentTabFallbackDone(ok) ==
  LET tk == tasks[0]
      r == tk.reqs["call"]
      valid == IF ok THEN SelectSeq(r.res, Inspectable) ELSE <<>>
  IN
  /\ tk.pc = "getCurrentTab.all"
  /\ Answered(r, ok)
  /\ nFail' = Count(ok)
  /\ IF valid # <<>> THEN InitBinds(valid[1]) ELSE InitFails

\* loadBrowserTabs' continuation; then bindEvents (init) and loadAllData up to
\* its three adapter calls
LoadBrowserTabsDone(t, ok) ==
  LET tk == tasks[t]
      r == tk.reqs["call"]
  IN
  /\ tk.pc = "loadBrowserTabs"
  /\ Answered(r, ok)
  /\ nFail' = Count(ok)
  /\ browserTabs' = IF ok THEN SelectSeq(r.res, Listable) ELSE browserTabs
  /\ bound' = TRUE
  /\ tasks' = [tasks EXCEPT ![t] =
                 [tk EXCEPT !.pc = "loadAllData",
                            !.reqs = LoadReqs(currentTabId, currentUrl)]]
  /\ UNCHANGED <<world, isFullscreen, currentTab, currentTabId, currentUrl, data,
                 searchQuery, theme, autoSave, view, nOps, hist, pure>>

-----------------------------------------------------------------------------
(* loadAllData / loadWebStorage / loadCookies *)

LoadAllSettled(reqs) == \A k \in Kinds : reqs[k].phase = "delivered"

\* what is left of a load's call once loadWebStorage / loadCookies returned,
\* from the try or from the catch: the promise given to Promise.all resolved
\* a faulty variant: a rejection is not caught and the promise never resolves
LoadReturnsOrHangs(r, ok) == IF ok THEN Delivered ELSE [r EXCEPT !.phase = "lost"]
LoadReturns(r, ok) == Delivered

\* One load's answer arrives: loadWebStorage / loadCookies write this.data[s].
\* When it is the last of the three, Promise.all resolves: loadAllData renders
\* and the awaiting caller runs to its end.
LoadSettles(t, s, ok) ==
  LET tk == tasks[t]
      r == tk.reqs[s]
      d1 == [data EXCEPT ![s] = LoadResult(s, r, ok)]
      reqs1 == [tk.reqs EXCEPT ![s] = LoadReturns(r, ok)]
      failed1 == IF ok THEN tk.failed ELSE tk.failed \cup {s}
      snap == StateSnapshot(currentTab, currentTabId, currentUrl, searchQuery, theme, now)
  IN
  /\ tk.pc = "loadAllData"
  /\ s \in Kinds
  /\ data' = d1
  /\ origin' = [origin EXCEPT ![s] = LoadedFrom(s, d1[s], r.ctx)]
  /\ IF LoadAllSettled(reqs1)
     THEN /\ rendered' = RenderList(d1, currentTab, searchQuery)
          /\ listShown' = (RenderList(d1, currentTab, searchQuery).items # {})
          /\ tasks' = [tasks EXCEPT ![t] = [tk EXCEPT !.pc = "done", !.reqs = reqs1, !.failed = failed1]]
          /\ autoSave' = IF tk.op = "init" THEN TRUE ELSE autoSave
          /\ loading' = IF tk.op \in {"init", "switch"} THEN FALSE ELSE loading
          /\ savedState' = IF tk.op = "switch" THEN snap ELSE savedState
          /\ toast' = CASE tk.op = "refresh" -> Toast("Refreshed")
                        [] tk.op = "switch" -> Toast("Switched")
                        [] tk.op = "import" -> [msg |-> "Imported", n |-> tk.args.count]
                        [] OTHER -> toast
     ELSE /\ tasks' = [tasks EXCEPT ![t] = [tk EXCEPT !.reqs = reqs1, !.failed = failed1]]
          /\ UNCHANGED <<autoSave, view, savedState>>
  /\ UNCHANGED <<kvStore, cookieStore, activeTabId, now, openTabs, isFullscreen,
                 currentTab, currentTabId, currentUrl, browserTabs, searchQuery, theme,
                 bound, nOps, pure>>

\* the answer of load s of handler t is delivered, resolved (ok) or rejected
DeliverLoad(t, s, ok) ==
  /\ Answered(tasks[t].reqs[s], ok)
  /\ nFail' = Count(ok)
  /\ LoadSettles(t, s, ok)

-----------------------------------------------------------------------------
(* User events; they exist once bindEvents has run *)

Active(t) == tasks[t].pc \notin {"idle", "done", "failed", "rejected", "declined", "threw"}
\* the import modal is open over the page: confirmImport is in its loops
ModalOpen(t) == tasks[t].op = "import" /\ Active(t) /\ tasks[t].pc # "loadAllData"
CanStart ==
  /\ bound
  /\ nOps < MaxOps
  /\ Cardinality({t \in TaskIds : Active(t)}) < MaxActive
  /\ \A t \in TaskIds : ~ModalOpen(t)
NewTask == nOps + 1

\* refresh()
Refresh ==
  /\ CanStart
  /\ nOps' = nOps + 1
  /\ tasks' = [tasks EXCEPT ![NewTask] =
       IF isFullscreen
       THEN [op |-> "refresh", pc |-> "loadBrowserTabs",
             reqs |-> Call(Req("tabs.query", NoTabId, "", <<>>, <<>>)), args |-> <<>>,
             failed |-> {}, ret |-> "none"]
       ELSE [op |-> "refresh", pc |-> "loadAllData",
             reqs |-> LoadReqs(currentTabId, currentUrl), args |-> <<>>, failed |-> {}, ret |-> "none"]]
  /\ UNCHANGED <<world, prog, view, nFail, hist, pure>>

\* this.browserTabs.find(t => t.id === parseInt(tabId))
\* a faulty variant: the first tab of the selector, whichever was chosen
FindTabFirst(tabs, tabId) == tabs[1]
FindTab(tabs, tabId) ==
  tabs[CHOOSE i \in DOMAIN tabs :
         tabs[i].id = tabId /\ \A j \in 1 .. (i - 1) : tabs[j].id # tabId]

\* switchBrowserTab(tabId), tabId an option of the tab selector
SwitchBrowserTab(tabId) ==
  LET tab == FindTab(browserTabs, tabId) IN
  /\ CanStart
  /\ \E i \in DOMAIN browserTabs : browserTabs[i].id = tabId
  /\ nOps' = nOps + 1
  /\ currentTabId' = tab.id
  /\ currentUrl' = tab.url
  /\ loading' = TRUE
  /\ listShown' = FALSE
  /\ tasks' = [tasks EXCEPT ![NewTask] =
       [op |-> "switch", pc |-> "loadAllData",
        reqs |-> LoadReqs(tab.id, tab.url),
        args |-> [to |-> tabId, alone |-> \A u \in TaskIds : ~Active(u)],
        failed |-> {}, ret |-> "none"]]
  /\ UNCHANGED <<world, isFullscreen, currentTab, browserTabs, data, searchQuery,
                 theme, bound, autoSave, rendered, toast, nFail, hist, pure>>

\* switchTab(tabName), from a click on the tab of another kind than the one
\* selected
SwitchTab(kind) ==
  /\ bound
  /\ nOps < MaxOps
  /\ nOps' = nOps + 1
  /\ kind # currentTab
  /\ currentTab' = kind
  /\ rendered' = RenderList(data, kind, searchQuery)
  /\ listShown' = (RenderList(data, kind, searchQuery).items # {})
  /\ savedState' = StateSnapshot(kind, currentTabId, currentUrl, searchQuery, theme, now)
  /\ UNCHANGED <<kvStore, cookieStore, activeTabId, now, openTabs, isFullscreen,
                 currentTabId, currentUrl, browserTabs, data, searchQuery, theme, bound,
                 autoSave, loading, toast, tasks, nFail, hist, pure>>

\* the adapter call of one step of confirmImport's loops, Head(pos.todo)
ImportCall(pos) ==
  LET kind == KindOrder[pos.ki]
      x == Head(pos.todo)
  IN CASE kind # "cookies" /\ pos.phase = "remove" ->
            [pc |-> "removeWebStorageItem",
             req |-> Req("storage.removeItem", currentTabId, kind, x, <<>>)]
       [] kind # "cookies" /\ pos.phase = "set" ->
            [pc |-> "setWebStorageItem",
             req |-> Req("storage.setItem", currentTabId, kind, x.k, x.v)]
       [] kind = "cookies" /\ pos.phase = "remove" ->
            [pc |-> "removeCookie",
             req |-> Req("cookies.remove", currentUrl, kind, x, <<>>)]
       [] kind = "cookies" /\ pos.phase = "set" ->
            [pc |-> "setCookie",
             req |-> Req("cookies.set", currentUrl, kind, x.name, CookieWrite(x, currentUrl))]

\* the keys / names of the mirror of a kind
StartKeys(d, kind) ==
  IF kind = "cookies" THEN {d.cookies[i].name : i \in DOMAIN d.cookies} ELSE DOMAIN d[kind]
\* the key / name of a todo entry of a loop
TodoKey(phase, kind, x) ==
  IF phase = "remove" THEN x ELSE IF kind = "cookies" THEN x.name ELSE x.k

\* confirmImport runs on from position pos to its next await: the next
\* set/remove, or after the last one closeModal and loadAllData; d is the
\* mirror as it is now
ImportGoes(t, tk, pos, d) ==
  LET a1 == [tk.args EXCEPT !.ki = pos.ki, !.phase = pos.phase, !.todo = pos.todo,
               !.starts = IF pos.ki = tk.args.ki \/ pos.ki = 4 THEN @
                          ELSE [@ EXCEPT ![KindOrder[pos.ki]] = StartKeys(d, KindOrder[pos.ki])]]
  IN
  /\ tasks' = [tasks EXCEPT ![t] =
       IF pos.ki = 4
       THEN [tk EXCEPT !.pc = "loadAllData", !.args = a1,
                       !.reqs = LoadReqs(currentTabId, currentUrl)]
       ELSE [tk EXCEPT !.pc = ImportCall(pos).pc, !.args = a1,
                       !.reqs = Call(ImportCall(pos).req)]]
  /\ UNCHANGED <<rendered, listShown, toast>>

\* count++ after a write of confirmImport
ImportCount(a, success) == IF a.phase = "set" THEN a.count + 1 ELSE a.count

\* confirmImport's position after the call at the head of a.todo
ImportOn(a, d1) ==
  IF Tail(a.todo) # <<>> THEN [ki |-> a.ki, phase |-> a.phase, todo |-> Tail(a.todo)]
  ELSE IF a.phase = "remove" THEN ImportSeek(d1, a.payload, a.merge, a.ki, "set")
  ELSE ImportSeek(d1, a.payload, a.merge, a.ki + 1, "remove")
\* confirmImport's position after the awaited call returned `success`: the
\* loops go on whatever the call returned
\* a faulty variant: a call that failed ends the import
ImportAfterStops(a, d1, success) ==
  IF success THEN ImportOn(a, d1) ELSE [ki |-> 4, phase |-> "end", todo |-> <<>>]
ImportAfter(a, d1, success) == ImportOn(a, d1)

\* this.editingItem: null, or the key openEditModal was called with
NoItem == [none |-> TRUE]
Item(key) == [key |-> key]
\* this.editingItem ? ... : ... (null and the empty string are falsy)
ItemSet(editingItem) == Has(editingItem, "key") /\ editingItem.key # <<>>
\* this.editingItem after closeModal(modal)
\* a faulty variant: the modal is closed and this.editingItem is kept
closeModalKeeps(editingItem) == editingItem
closeModal(editingItem) == NoItem
\* saveItem's success branch: closeModal, then the toast chosen by
\* this.editingItem
SavedNotice(editingItem) ==
  IF ItemSet(closeModal(editingItem)) THEN Toast("Updated") ELSE Toast("Added")

\* The awaited setWebStorageItem / removeWebStorageItem / setCookie /
\* removeCookie returned `success` with the mirror now d1: the caller runs on.
Resume(t, d1, success) ==
  LET tk == [tasks[t] EXCEPT !.ret = IF success THEN "true" ELSE "false"]
      a == tk.args
      list == RenderList(d1, currentTab, searchQuery)
  IN
  CASE tk.op = "save" ->
         /\ tasks' = [tasks EXCEPT ![t] = [tk EXCEPT !.pc = "done", !.reqs = NoReqs]]
         /\ rendered' = IF success THEN list ELSE rendered
         /\ listShown' = IF success THEN list.items # {} ELSE listShown
         /\ toast' = IF success THEN SavedNotice(tk.args.editingItem)
                     ELSE Toast("Failed to save")
    [] tk.op = "delete" ->
         /\ tasks' = [tasks EXCEPT ![t] = [tk EXCEPT !.pc = "done", !.reqs = NoReqs]]
         /\ rendered' = IF success THEN list ELSE rendered
         /\ listShown' = IF success THEN list.items # {} ELSE listShown
         /\ toast' = IF success THEN Toast("Deleted") ELSE Toast("Failed to delete")
    [] tk.op = "import" ->
         LET tk1 == [tk EXCEPT !.args.count = ImportCount(a, success),
                               !.args.applied = IF a.phase = "set" /\ success
                                                THEN @ + 1 ELSE @,
                               !.args.log = Append(@,
                                  [kind |-> KindOrder[a.ki], phase |-> a.phase,
                                   key |-> TodoKey(a.phase, KindOrder[a.ki], Head(a.todo)),
                                   ok |-> success])]
         IN ImportGoes(t, tk1, ImportAfter(a, d1, success), d1)

Frame == UNCHANGED <<world, isFullscreen, currentTab, currentTabId, currentUrl,
                     browserTabs, searchQuery, theme, bound, autoSave, loading,
                     nOps, pure>>

\* what a settled setWebStorageItem leaves in the mirror
\* a faulty variant: the mirror is written whatever the adapter answered
SetItemResultEager(d, r, ok) == [d EXCEPT ![r.type] = Put(@, r.key, r.val)]
\* another faulty variant: the kind is replaced by the entry written
SetItemResultReplaces(d, r, ok) ==
  IF ok THEN [d EXCEPT ![r.type] = Put(EmptyMap, r.key, r.val)] ELSE d
SetItemResult(d, r, ok) == IF ok THEN [d EXCEPT ![r.type] = Put(@, r.key, r.val)] ELSE d
\* what a settled removeWebStorageItem leaves in the mirror
\* a faulty variant: the whole kind is evicted
RemoveItemResultClears(d, r, ok) == IF ok THEN [d EXCEPT ![r.type] = EmptyMap] ELSE d
RemoveItemResult(d, r, ok) == IF ok THEN [d EXCEPT ![r.type] = Del(@, r.key)] ELSE d

\* setWebStorageItem after its executeScript settled
SetItemDone(t, ok) ==
  LET r == tasks[t].reqs["call"] IN
  /\ tasks[t].pc = "setWebStorageItem"
  /\ Answered(r, ok)
  /\ nFail' = Count(ok)
  /\ data' = SetItemResult(data, r, ok)
  /\ origin' = IF ok THEN [origin EXCEPT ![r.type] = Put(@, r.key, r.ctx)] ELSE origin
  /\ Resume(t, SetItemResult(data, r, ok), ok)
  /\ Frame

\* removeWebStorageItem after its executeScript settled
RemoveItemDone(t, ok) ==
  LET r == tasks[t].reqs["call"] IN
  /\ tasks[t].pc = "removeWebStorageItem"
  /\ Answered(r, ok)
  /\ nFail' = Count(ok)
  /\ data' = RemoveItemResult(data, r, ok)
  /\ origin' = IF ok THEN [origin EXCEPT ![r.type] = Del(@, r.key)] ELSE origin
  /\ Resume(t, RemoveItemResult(data, r, ok), ok)
  /\ Frame

\* setCookie / removeCookie after chrome.cookies.set / remove resolved:
\* await this.loadCookies(), which reads this.currentUrl now
\* a faulty variant: true is returned with no reload
CookieWrittenReturns(tk) == [tk EXCEPT !.pc = "done", !.ret = "true", !.reqs = NoReqs]
CookieWritten(tk) ==
  [tk EXCEPT !.pc = "loadCookies",
             !.reqs = Call(Req("cookies.getAll", currentUrl, "cookies", <<>>, <<>>))]

\* setCookie / removeCookie after chrome.cookies.set / remove settled: on
\* success loadCookies is called and awaited, on failure false is returned
CookieWriteDone(t, ok) ==
  LET tk == tasks[t]
      r == tk.reqs["call"]
  IN
  /\ tk.pc \in {"setCookie", "removeCookie"}
  /\ Answered(r, ok)
  /\ nFail' = Count(ok)
  /\ data' = data
  /\ IF ok
     THEN /\ tasks' = [tasks EXCEPT ![t] = CookieWritten(tk)]
          /\ UNCHANGED <<rendered, listShown, toast>>
     ELSE Resume(t, data, FALSE)
  /\ UNCHANGED hist
  /\ Frame

\* the loadCookies of setCookie / removeCookie settled; they return true
CookieReloadDone(t, ok) ==
  LET r == tasks[t].reqs["call"]
      d1 == [data EXCEPT !.cookies = LoadResult("cookies", r, ok)]
  IN
  /\ tasks[t].pc = "loadCookies"
  /\ Answered(r, ok)
  /\ nFail' = Count(ok)
  /\ data' = d1
  /\ origin' = [origin EXCEPT !.cookies = r.ctx]
  /\ Resume(t, d1, TRUE)
  /\ Frame

StartFrame == UNCHANGED <<world, prog, nFail, hist, pure>>

\* the cookie fields of the edit modal as openAddModal fills them
AddForm(url) ==
  [domain |-> url.hostname, path |-> Slash, expires |-> <<>>,
   secure |-> url.scheme = "https", httpOnly |-> FALSE, sameSite |-> Lax]

\* the cookie fields of the edit modal as openEditModal fills them from the
\* mirror's cookie; the expiry field holds the UTC minute of the expiry, the
\* text toISOString().slice(0, 16) writes, or is empty
EditForm(cookie) ==
  [domain |-> StripDot(OrElse(cookie, "domain", <<>>)),
   path |-> OrElse(cookie, "path", Slash),
   expires |-> IF Truthy(cookie, "expirationDate")
               THEN <<cookie.expirationDate \div 60>> ELSE <<>>,
   secure |-> OrElse(cookie, "secure", FALSE),
   httpOnly |-> OrElse(cookie, "httpOnly", FALSE),
   sameSite |-> OrElse(cookie, "sameSite", Lax)]

\* saveItem's cookieData from the modal's fields; new Date(expires) reads the
\* expiry field as local time, tz minutes off UTC
FormCookieData(key, value, form, tz) ==
  [name |-> key, value |-> value,
   path |-> IF form.path # <<>> THEN form.path ELSE Slash,
   secure |-> form.secure, httpOnly |-> form.httpOnly, sameSite |-> form.sameSite]
  @@ (IF form.domain # <<>> THEN [domain |-> form.domain] ELSE NoFields)
  @@ (IF form.expires # <<>> THEN [expirationDate |-> (form.expires[1] + tz) * 60]
      ELSE NoFields)

\* what the user may type into the key field
FormKeys == Keys \cup {<<" ">>}

\* saveItem() with key0 in the key field, value0 in the value field, the
\* cookie fields as in form, and this.editingItem as the modal was opened
SaveWith(key0, value0, form, editingItem) ==
  LET key == Trim(key0)
      value == Minify(value0)
  IN
  /\ CanStart
  /\ nOps' = nOps + 1
  /\ IF key = <<>>
     THEN /\ toast' = Toast("Key is required")
          /\ tasks' = [tasks EXCEPT ![NewTask] =
               [op |-> "save", pc |-> "rejected", reqs |-> NoReqs, args |-> <<>>,
                failed |-> {}, ret |-> "none"]]
     ELSE /\ toast' = toast
          /\ tasks' = [tasks EXCEPT ![NewTask] =
               IF currentTab = "cookies"
               THEN [op |-> "save", pc |-> "setCookie",
                     reqs |-> Call(Req("cookies.set", currentUrl, "cookies", key,
                        CookieWrite(FormCookieData(key, value, form, 0), currentUrl))),
                     args |-> [kind |-> currentTab, key |-> key, value |-> value,
                               editingItem |-> editingItem],
                     failed |-> {}, ret |-> "none"]
               ELSE [op |-> "save", pc |-> "setWebStorageItem",
                     reqs |-> Call(Req("storage.setItem", currentTabId, currentTab,
                                       key, value)),
                     args |-> [kind |-> currentTab, key |-> key, value |-> value,
                               editingItem |-> editingItem],
                     failed |-> {}, ret |-> "none"]]
  /\ UNCHANGED <<rendered, listShown, loading>>
  /\ StartFrame

\* saveItem() with the modal opened by openAddModal and key, value typed in
SaveItem(key0, value0) == SaveWith(key0, value0, AddForm(currentUrl), NoItem)

\* this.data.cookies.find(c => c.name === key)
FindCookie(cookies, key) ==
  cookies[CHOOSE i \in DOMAIN cookies :
            cookies[i].name = key /\ \A j \in 1 .. (i - 1) : cookies[j].name # key]

\* saveItem() with the modal opened by openEditModal(key) from the edit
\* button of a listed item (the key field is filled and disabled, the cookie
\* fields are those of the mirror's cookie) and value typed in
EditItem(key, value0) ==
  /\ listShown
  /\ rendered.kind = currentTab
  /\ key \in rendered.items
  /\ IF currentTab = "cookies"
     THEN /\ \E i \in DOMAIN data.cookies : data.cookies[i].name = key
          /\ SaveWith(key, value0, EditForm(FindCookie(data.cookies, key)), Item(key))
     ELSE SaveWith(key, value0, AddForm(currentUrl), Item(key))

\* deleteItem(key) from the delete button of a listed item; confirmed is the
\* user's answer to confirm()
DeleteItem(key, confirmed) ==
  /\ CanStart
  /\ listShown
  /\ key \in rendered.items
  /\ nOps' = nOps + 1
  /\ tasks' = [tasks EXCEPT ![NewTask] =
       IF ~confirmed
       THEN [op |-> "delete", pc |-> "declined", reqs |-> NoReqs,
             args |-> [kind |-> currentTab, key |-> key, confirmed |-> FALSE], failed |-> {}, ret |-> "none"]
       ELSE IF currentTab = "cookies"
       THEN [op |-> "delete", pc |-> "removeCookie",
             reqs |-> Call(Req("cookies.remove", currentUrl, "cookies", key, <<>>)),
             args |-> [kind |-> currentTab, key |-> key, confirmed |-> TRUE], failed |-> {}, ret |-> "none"]
       ELSE [op |-> "delete", pc |-> "removeWebStorageItem",
             reqs |-> Call(Req("storage.removeItem", currentTabId, currentTab, key, <<>>)),
             args |-> [kind |-> currentTab, key |-> key, confirmed |-> TRUE], failed |-> {}, ret |-> "none"]]
  /\ UNCHANGED view
  /\ StartFrame

\* the mirror equals the stores of the bound context
InSync ==
  /\ currentTabId \in PageTabs
  /\ \A k \in KV : data[k] = kvStore[currentTabId][k]
  /\ data.cookies = CookieJar(currentUrl)

\* confirmImport's reading of the import box: blank, invalid, or parsed to val
\* a faulty variant: a parse error is swallowed and the import goes on empty
ImportInputSwallows(text) ==
  IF Trim(text) = <<>> THEN [kind |-> "blank"]
  ELSE IF ~JsonParse(Trim(text)).ok THEN [kind |-> "parsed", val |-> JObj(<<>>)]
  ELSE [kind |-> "parsed", val |-> JsonParse(Trim(text)).val]
ImportInput(text) ==
  IF Trim(text) = <<>> THEN [kind |-> "blank"]
  ELSE IF ~JsonParse(Trim(text)).ok THEN [kind |-> "invalid"]
  ELSE [kind |-> "parsed", val |-> JsonParse(Trim(text)).val]

\* confirmImport() with `text` in the import box and the merge box as given
ConfirmImport(text, merge) ==
  LET input == ImportInput(text).kind
      p == ImportInput(text).val
      base == [op |-> "import", pc |-> "rejected", reqs |-> NoReqs, failed |-> {}, ret |-> "none",
               args |-> [text |-> text, payload |-> <<>>, merge |-> merge, ki |-> 0, phase |-> "none",
                         todo |-> <<>>, count |-> 0, applied |-> 0, fail0 |-> nFail,
                         alone |-> \A u \in TaskIds : ~Active(u),
                         sync |-> InSync /\ \A u \in TaskIds : ~Active(u),
                         before |-> IF currentTabId \in PageTabs
                                    THEN kvStore[currentTabId] @@ [cookies |-> CookieJar(currentUrl)]
                                    ELSE <<>>,
                         starts |-> [k \in Kinds |-> {}], log |-> <<>>]]
  IN
  /\ CanStart
  /\ Cardinality({u \in TaskIds : Active(u)}) <= MaxBesideImport
  /\ nOps' = nOps + 1
  /\ IF input # "parsed"
     THEN /\ toast' = IF input = "blank" THEN Toast("No data to import")
                      ELSE Toast("Invalid JSON")
          /\ tasks' = [tasks EXCEPT ![NewTask] = base]
          /\ UNCHANGED <<rendered, listShown>>
     ELSE IF p.t = "null"
     THEN /\ tasks' = [tasks EXCEPT ![NewTask] = [base EXCEPT !.pc = "threw"]]
          /\ UNCHANGED <<rendered, listShown, toast>>
     ELSE ImportGoes(NewTask, [base EXCEPT !.args.payload = p],
                     ImportSeek(data, p, merge, 1, "remove"), data)
  /\ UNCHANGED loading
  /\ StartFrame

-----------------------------------------------------------------------------
Next ==
  \/ \E t \in TaskIds, s \in Slots : Exec(t, s)
  \/ \E ok \in BOOLEAN : RestoreStateDone(ok)
  \/ \E ok \in BOOLEAN : GetCurrentTabDone(ok)
  \/ \E ok \in BOOLEAN : GetCurrentTabFallbackDone(ok)
  \/ \E t \in TaskIds, ok \in BOOLEAN : LoadBrowserTabsDone(t, ok)
  \/ \E t \in TaskIds, s \in Kinds, ok \in BOOLEAN : DeliverLoad(t, s, ok)
  \/ \E t \in TaskIds, ok \in BOOLEAN : SetItemDone(t, ok)
  \/ \E t \in TaskIds, ok \in BOOLEAN : RemoveItemDone(t, ok)
  \/ \E t \in TaskIds, ok \in BOOLEAN : CookieWriteDone(t, ok)
  \/ \E t \in TaskIds, ok \in BOOLEAN : CookieReloadDone(t, ok)
  \/ Refresh
  \/ \E i \in DOMAIN browserTabs : SwitchBrowserTab(browserTabs[i].id)
  \/ \E k \in Kinds : SwitchTab(k)
  \/ \E k \in FormKeys, v \in Vals : SaveItem(k, v)
  \/ \E k \in rendered.items, c \in BOOLEAN : DeleteItem(k, c)
  \/ \E text \in ImportTexts, merge \in BOOLEAN : ConfirmImport(text, merge)

Spec == Init /\ [][Next]_vars

-----------------------------------------------------------------------------
(* Properties of the handlers *)

LoadApis == {"storage.read", "cookies.getAll"}
WriteApis == {"storage.setItem", "storage.removeItem", "cookies.set", "cookies.remove"}
\* two requests are the same; the contexts, a tab id or a URL according to
\* the api, are compared only between requests of one api
SameReq(a, b) == a.api = b.api /\ a.phase = b.phase /\ a = b
\* two records of a handler are the same
SameTask(a, b) ==
  /\ a.op = b.op /\ a.pc = b.pc /\ a.ret = b.ret /\ a.failed = b.failed
  /\ a.args = b.args
  /\ \A s \in Slots : SameReq(a.reqs[s], b.reqs[s])
\* this step hands the resolved call in slot s of handler t to the handler
Succeeded(t, s) ==
  /\ tasks[t].reqs[s].phase = "done"
  /\ ~SameReq(tasks'[t].reqs[s], tasks[t].reqs[s])
\* this step hands the rejection of the call in slot s of handler t to the handler
Failed(t, s) ==
  /\ tasks[t].reqs[s].phase = "sent"
  /\ nFail' = nFail + 1
  /\ ~SameTask(tasks'[t], tasks[t])
  /\ tasks[t].pc = "loadAllData" => ~SameReq(tasks'[t].reqs[s], tasks[t].reqs[s])
\* handler t starts in this step
Starts(t, op) == tasks[t].op = "none" /\ tasks'[t].op = op
\* the store content of a kind in the bound context
StoreOf(kind) ==
  IF kind = "cookies" THEN CookieJar(currentUrl) ELSE kvStore[currentTabId][kind]

\* C1: whenever the response of a load is written into data[kind], the context
\* the load was issued for (tab id for the web storages, URL for the cookies)
\* is the mirror's current context: a stale response is never applied.
C1_StaleLoadNeverApplied ==
  [][\A t \in TaskIds, s \in Slots :
       LET r == tasks[t].reqs[s] IN
       (r.api \in LoadApis /\ Succeeded(t, s)) =>
          IF r.api = "storage.read" THEN r.ctx = currentTabId ELSE r.ctx = currentUrl]_vars

\* C2: when the adapter call of setWebStorageItem, removeWebStorageItem,
\* setCookie or removeCookie is rejected, the operation returns false and the
\* three mirrors are exactly what they were; the mirror only ever changes when
\* a load settles or a write that the adapter reported successful is applied.
C2_FailedMutationLeavesMirror ==
  [][/\ \A t \in TaskIds :
          LET r == tasks[t].reqs["call"] IN
          (r.api \in WriteApis /\ Failed(t, "call")) =>
             data' = data /\ tasks'[t].ret = "false"
     /\ data' # data =>
          \E t \in TaskIds, s \in Slots :
             LET r == tasks[t].reqs[s] IN
             \/ r.api \in LoadApis /\ (Succeeded(t, s) \/ Failed(t, s))
             \/ r.api \in WriteApis /\ Succeeded(t, s)]_vars
\* a save whose adapter call was rejected has returned
C2_Witness ==
  \E t \in TaskIds : tasks[t].op = "save" /\ tasks[t].pc = "done" /\ tasks[t].ret = "false"

\* C3: a load of loadAllData that fails empties the mirror of its own store and
\* leaves the other two alone, one that succeeds writes what its adapter
\* returned and leaves the other two alone; after the first loadAllData every
\* mirror whose load failed is empty and every other holds its store's content.
C3_LoadFailureIsolated ==
  /\ [](tasks[0].pc = "done" /\ nOps = 0 =>
          \A kind \in Kinds :
             data[kind] = IF kind \in tasks[0].failed THEN EmptyOf(kind) ELSE StoreOf(kind))
  /\ [][\A t \in TaskIds, s \in Kinds :
          LET r == tasks[t].reqs[s] IN
          (r.api \in LoadApis /\ (Succeeded(t, s) \/ Failed(t, s))) =>
             /\ data'[s] = IF Succeeded(t, s) THEN r.res ELSE EmptyOf(s)
             /\ \A k \in Kinds \ {s} : data'[k] = data[k]]_vars
\* the first loadAllData is through, exactly the sessionStorage load failed, and
\* the other two stores had content to return
C3_Witness ==
  /\ tasks[0].pc = "done" /\ nOps = 0
  /\ tasks[0].failed = {"sessionStorage"}
  /\ kvStore[currentTabId]["sessionStorage"] # EmptyMap
  /\ data.localStorage # EmptyMap /\ data.cookies # <<>>

\* the payload's entries of a key-value kind as a map
PayloadMap(p, kind) ==
  LET e == PayloadEntries(p, kind) IN
  [k \in {e[i].k : i \in DOMAIN e} |-> e[CHOOSE i \in DOMAIN e : e[i].k = k].v]
Overlay(m, n) == [k \in (DOMAIN m) \cup (DOMAIN n) |-> IF k \in DOMAIN n THEN n[k] ELSE m[k]]
\* import t ran alone from a mirror in sync and none of its calls failed
CleanImport(t) ==
  /\ tasks[t].op = "import" /\ tasks[t].pc = "done"
  /\ tasks[t].args.sync /\ tasks[t].args.fail0 = nFail /\ nOps = t

\* C4: after an import that started with the mirror in sync and had every
\* adapter call succeed, the store (and the reloaded mirror) of each key-value
\* kind of the payload is, in merge mode, the previous content overlaid by the
\* payload's entries and, in replace mode, exactly the payload's entries.
C4_ImportMergeReplace ==
  \A t \in TaskIds :
     CleanImport(t) =>
       \A K \in KV :
          LET a == tasks[t].args IN
          PayloadHas(a.payload, K) =>
            /\ kvStore[currentTabId][K] =
                 IF a.merge THEN Overlay(a.before[K], PayloadMap(a.payload, K))
                 ELSE PayloadMap(a.payload, K)
            /\ data[K] = kvStore[currentTabId][K]
\* a replacing import of localStorage over content with another key is through
C4_Witness ==
  \E t \in TaskIds :
     /\ CleanImport(t)
     /\ ~tasks[t].args.merge
     /\ PayloadHas(tasks[t].args.payload, "localStorage")
     /\ DOMAIN tasks[t].args.before["localStorage"] # {}
     /\ DOMAIN tasks[t].args.before["localStorage"]
          # DOMAIN PayloadMap(tasks[t].args.payload, "localStorage")

\* C5: the count confirmImport reports in its toast is the number of payload
\* entries whose write (setWebStorageItem / setCookie) succeeded.
C5_CountIsApplied ==
  \A t \in TaskIds :
     (tasks[t].op = "import" /\ tasks[t].pc = "done" /\ nOps = t) =>
        toast = [msg |-> "Imported", n |-> tasks[t].args.applied]

\* C6: an import whose text is not well-formed JSON is rejected with nothing
\* touched: it never has an adapter call (set, remove or load) in flight, and
\* the step that confirms it changes neither the mirror nor the stores.
C6_MalformedImportRejected ==
  /\ [](\A t \in TaskIds :
          (tasks[t].op = "import" /\ ~JsonParse(Trim(tasks[t].args.text)).ok) =>
             tasks[t].pc = "rejected" /\ tasks[t].reqs = NoReqs)
  /\ [][\A t \in TaskIds :
          (Starts(t, "import") /\ ~JsonParse(Trim(tasks'[t].args.text)).ok) =>
             data' = data /\ world' = world]_vars
\* an import of text that breaks off inside the object was confirmed
C6_Witness ==
  \E t \in TaskIds : tasks[t].op = "import" /\ tasks[t].args.text = TextBroken

\* C9: a delete has a remove call in flight only if the user confirmed; a
\* declined delete makes no adapter call and leaves the mirror and the stores
\* alone; a key-value remove that succeeded evicts exactly its key from the
\* mirror of its kind and leaves every other entry and both other kinds.
C9_DeleteOnlyConfirmed ==
  /\ [](\A t \in TaskIds :
          (tasks[t].op = "delete" /\ ~tasks[t].args.confirmed) =>
             tasks[t].pc = "declined" /\ tasks[t].reqs = NoReqs)
  /\ [][\A t \in TaskIds :
          LET r == tasks[t].reqs["call"] IN
          /\ (Starts(t, "delete") /\ ~tasks'[t].args.confirmed) =>
                data' = data /\ world' = world
          /\ (tasks[t].op = "delete" /\ r.api = "storage.removeItem" /\ Succeeded(t, "call")) =>
                /\ DOMAIN data'[r.type] = (DOMAIN data[r.type]) \ {r.key}
                /\ \A k \in DOMAIN data'[r.type] : data'[r.type][k] = data[r.type][k]
                /\ \A kind \in Kinds \ {r.type} : data'[kind] = data[kind]]_vars
\* a confirmed delete of a key-value item has evicted its key while another
\* entry of the kind stayed
C9_Witness ==
  \E t \in TaskIds :
     /\ tasks[t].op = "delete" /\ tasks[t].pc = "done" /\ tasks[t].ret = "true"
     /\ tasks[t].args.kind \in KV
     /\ tasks[t].args.key \notin DOMAIN data[tasks[t].args.kind]
     /\ data[tasks[t].args.kind] # EmptyMap

-----------------------------------------------------------------------------
(* setCookie on its own: every input it can be given, from an import        *)
(* payload or from the edit modal                                           *)

\* the main program does not run in the specifications of single functions
Parked ==
  /\ kvStore = KvStore0 /\ cookieStore = CookieStore0
  /\ activeTabId = 1 /\ savedState = NoState /\ now = HourMs
  /\ openTabs = AllTabs /\ origin = NoOrigin
  /\ isFullscreen = FALSE /\ currentTab = "cookies"
  /\ currentTabId = NoTabId /\ currentUrl = NoUrl /\ browserTabs = <<>>
  /\ data = EmptyData /\ searchQuery = <<>> /\ theme = "dark"
  /\ bound = FALSE /\ autoSave = FALSE
  /\ rendered = [kind |-> "none", items |-> {}]
  /\ loading = FALSE /\ listShown = FALSE /\ toast = Toast("none")
  /\ tasks = [t \in TaskIds |-> IdleTask]
  /\ nOps = 0 /\ nFail = 0
StayParked == UNCHANGED <<world, prog, view, async, hist>>

\* Longest domain string tried
MaxDomLen == 2
DomainChars == {".", "a", "b"}
RECURSIVE Strings(_, _)
Strings(chars, n) ==
  IF n = 0 THEN {<<>>}
  ELSE Strings(chars, n - 1) \cup {Append(w, c) : w \in Strings(chars, n - 1), c \in chars}
Domains == Strings(DomainChars, MaxDomLen)

OptionalFields == {"domain", "path", "secure", "httpOnly", "sameSite", "expirationDate"}
Strict == <<"s", "t", "r", "i", "c", "t">>
\* the fields `present` of the record `all`, with its name and value
Pick(all, present) == [f \in present \cup {"name", "value"} |-> all[f]]
\* what setCookie may be given by an import
CookieInputs ==
  [name : {<<"c">>}, value : {<<"1">>}, domain : Domains, path : {<<>>, <<"/", "x">>},
   secure : BOOLEAN, httpOnly : {TRUE}, sameSite : {<<>>, Strict},
   expirationDate : {0, 90}]
CookieInput0 ==
  [name |-> <<"c">>, value |-> <<"1">>, domain |-> <<>>, path |-> <<>>, secure |-> FALSE,
   httpOnly |-> TRUE, sameSite |-> <<>>, expirationDate |-> 0]
\* cookies of the mirror an edit may start from
MirrorCookies ==
  [name : {<<"c">>}, value : {<<"1">>}, domain : {<<".", "a">>, <<"a">>, <<".", "b">>},
   path : {<<"/">>, <<"/", "x">>}, secure : {TRUE}, httpOnly : {TRUE},
   sameSite : {Strict}, expirationDate : {0, 30, 90}]
MirrorCookie0 ==
  [name |-> <<"c">>, value |-> <<"1">>, domain |-> <<".", "a">>, path |-> <<"/">>,
   secure |-> TRUE, httpOnly |-> TRUE, sameSite |-> Strict, expirationDate |-> 0]
Hosts == {HostA, HostB}
\* the offsets of local time tried, in minutes
TimeZones == {0, 60}

InitCookie ==
  /\ Parked
  /\ fnOut = <<>>
  /\ \/ /\ fnPc = "import"
        /\ \E ap \in CookieInputs \X SUBSET OptionalFields, h \in Hosts :
              /\ \A f \in OptionalFields \ ap[2] : ap[1][f] = CookieInput0[f]
              /\ fnIn = [data |-> Pick(ap[1], ap[2]), url |-> Url("https", h)]
     \/ /\ fnPc = "modal"
        /\ \E ap \in MirrorCookies \X SUBSET OptionalFields, h \in Hosts,
              v \in Vals, tz \in TimeZones :
              /\ \A f \in OptionalFields \ ap[2] : ap[1][f] = MirrorCookie0[f]
              /\ fnIn = [cookie |-> Pick(ap[1], ap[2]), value |-> v, tz |-> tz,
                         url |-> Url("https", h)]

\* setCookie(cookie) of confirmImport up to its chrome.cookies.set
ImportSetCookie ==
  /\ fnPc = "import"
  /\ fnOut' = [data |-> fnIn.data, write |-> CookieWrite(fnIn.data, fnIn.url)]
  /\ fnPc' = "written"
  /\ UNCHANGED fnIn
  /\ StayParked

\* openEditModal(cookie.name), a new value typed, saveItem() up to the
\* chrome.cookies.set of its setCookie
ModalSetCookie ==
  LET d == FormCookieData(fnIn.cookie.name, Minify(fnIn.value), EditForm(fnIn.cookie), fnIn.tz) IN
  /\ fnPc = "modal"
  /\ fnOut' = [data |-> d, write |-> CookieWrite(d, fnIn.url)]
  /\ fnPc' = "written"
  /\ UNCHANGED fnIn
  /\ StayParked

NextCookie == ImportSetCookie \/ ModalSetCookie
SpecCookie == InitCookie /\ [][NextCookie]_vars

\* a field of setCookie's input that is absent or the empty string
Unset(d, f) == ~Has(d, f) \/ d[f] = <<>>

\* C7: a cookie write whose input domain, less one leading ".", is the current
\* hostname, or whose input has no domain, carries no domain attribute; every
\* other write carries the input domain less one leading ".".
C7_DomainRule ==
  fnPc = "written" =>
    LET d == fnOut.data
        w == fnOut.write
        stripped == IF d.domain[1] = "." THEN SubSeq(d.domain, 2, Len(d.domain)) ELSE d.domain
    IN IF Unset(d, "domain") THEN ~Has(w, "domain")
       ELSE IF stripped = w.url.hostname THEN ~Has(w, "domain")
       ELSE Has(w, "domain") /\ w.domain = stripped
\* a write for domain ".a" on host a, and so without a domain attribute
C7_Witness ==
  /\ fnPc = "written"
  /\ Has(fnOut.data, "domain") /\ fnOut.data.domain = <<".", "a">>
  /\ fnOut.write.url.hostname = HostA
  /\ ~Has(fnOut.write, "domain")

\* C8: a cookie write has path "/" when the input path is empty, secure and
\* httpOnly false when unset, sameSite "lax" when unset, and an expirationDate
\* exactly when the input provides one; a cookie without httpOnly and sameSite
\* edited through the modal is written with path "/" (its own), httpOnly false
\* and sameSite "lax".
C8_WriteDefaults ==
  fnPc = "written" =>
    LET d == fnOut.data
        w == fnOut.write
    IN /\ Unset(d, "path") => w.path = Slash
       /\ ~Has(d, "secure") => w.secure = FALSE
       /\ ~Has(d, "httpOnly") => w.httpOnly = FALSE
       /\ Unset(d, "sameSite") => w.sameSite = Lax
       /\ Has(w, "expirationDate") <=> Has(d, "expirationDate")
       /\ (/\ Has(fnIn, "cookie")
           /\ ~Has(fnIn.cookie, "httpOnly") /\ ~Has(fnIn.cookie, "sameSite")
           /\ Has(fnIn.cookie, "path") /\ fnIn.cookie.path = Slash)
          => w.path = Slash /\ w.httpOnly = FALSE /\ w.sameSite = Lax

-----------------------------------------------------------------------------
(* The value saveItem stores, on its own: every text of a few pieces *)

\* Number of pieces a value text is put together from
MaxChunks == 4
Chunks ==
  {<<"[">>, <<"]">>, <<"{">>, <<"}">>, <<" ">>, <<",">>, <<"1">>, <<"0">>,
   <<"1", "e", "9", "9", "9">>, <<"\"", "a", "\"", ":">>, <<"\"", "\\", "n", "\"">>}
RECURSIVE Texts(_)
Texts(n) ==
  IF n = 0 THEN {<<>>}
  ELSE Texts(n - 1) \cup {w \o c : w \in Texts(n - 1), c \in Chunks}

InitJson ==
  /\ Parked
  /\ fnPc = "typed"
  /\ fnIn \in Texts(MaxChunks)
  /\ fnOut = <<>>

\* saveItem()'s value as setWebStorageItem writes it: window[type].setItem(k, v)
SaveValue ==
  /\ fnPc = "typed"
  /\ fnOut' = Minify(fnIn)
  /\ fnPc' = "stored"
  /\ UNCHANGED fnIn
  /\ StayParked

\* loadWebStorage reads it back: storage.getItem(key) is the string stored
LoadValue ==
  /\ fnPc = "stored"
  /\ fnPc' = "loaded"
  /\ UNCHANGED <<fnIn, fnOut>>
  /\ StayParked

NextJson == SaveValue \/ LoadValue
SpecJson == InitJson /\ [][NextJson]_vars

\* C10: a value that is a well-formed JSON object or array text is read back
\* in its whitespace-free re-serialized form, which parses to the same JSON
\* value and is its own re-serialization; any other text is read back as typed.
C10_SaveRoundTrip ==
  fnPc = "loaded" =>
    LET in == JsonParse(fnIn) IN
    IF in.ok /\ in.val.t \in {"obj", "arr"}
    THEN /\ JsonParse(fnOut).ok
         /\ JsonParse(fnOut).val = in.val
         /\ \A i \in DOMAIN fnOut : fnOut[i] \notin Ws
         /\ Minify(fnOut) = fnOut
    ELSE fnOut = fnIn

-----------------------------------------------------------------------------
(* Export, and the import of an export: a popup whose init is through on a   *)
(* page with some content exports its mirror and the text is imported in     *)
(* replace mode, into the emptied stores or over the stores as they are.     *)

Spaces(n) == [i \in 1 .. n |-> " "]
RECURSIVE StringifyIndent(_, _), IndentElements(_, _), IndentMembers(_, _)
\* JSON.stringify(value, null, 2) at indentation n
StringifyIndent(v, n) ==
  CASE v.t = "arr" /\ v.e # <<>> ->
         <<"[", "\n">> \o IndentElements(v.e, n + 2) \o <<"\n">> \o Spaces(n) \o <<"]">>
    [] v.t = "obj" /\ v.m # <<>> ->
         <<"{", "\n">> \o IndentMembers(v.m, n + 2) \o <<"\n">> \o Spaces(n) \o <<"}">>
    [] OTHER -> JsonStringify(v)
IndentElements(e, n) ==
  Spaces(n) \o StringifyIndent(Head(e), n)
  \o (IF Len(e) > 1 THEN <<",", "\n">> \o IndentElements(Tail(e), n) ELSE <<>>)
IndentMembers(m, n) ==
  Spaces(n) \o Quote(Head(m).k) \o <<":", " ">> \o StringifyIndent(Head(m).v, n)
  \o (IF Len(m) > 1 THEN <<",", "\n">> \o IndentMembers(Tail(m), n) ELSE <<>>)

ExportedAtName == <<"e", "x", "p", "o", "r", "t", "e", "d", "A", "t">>
JMember(key, val) == [k |-> key, v |-> val]
\* a number of the program as a JSON number
JNumOfInt(n) == JNum(NumValue(n < 0, IntToDigits(IF n < 0 THEN 0 - n ELSE n), 0))
\* this.data.localStorage / sessionStorage as the object it is
JsonOfMap(m) ==
  LET keys == SetToSeq(DOMAIN m) IN
  JObj([i \in DOMAIN keys |-> JMember(keys[i], JStr(m[keys[i]]))])
\* the cookie object getExportData makes of a mirrored cookie; a member that
\* is undefined is left out by JSON.stringify
\* a faulty variant: the domain is exported as it is mirrored
ExportCookieAsIs(c) ==
  JObj(<< JMember(FieldChars("name"), JStr(c.name)),
          JMember(FieldChars("value"), JStr(c.value)),
          JMember(FieldChars("path"), JStr(c.path)),
          JMember(FieldChars("secure"), JBool(c.secure)),
          JMember(FieldChars("httpOnly"), JBool(c.httpOnly)),
          JMember(FieldChars("sameSite"), JStr(c.sameSite)),
          JMember(FieldChars("domain"), JStr(c.domain)) >>)
ExportCookie(c) ==
  JObj(<< JMember(FieldChars("name"), JStr(c.name)),
          JMember(FieldChars("value"), JStr(c.value)),
          JMember(FieldChars("path"), JStr(c.path)),
          JMember(FieldChars("secure"), JBool(c.secure)),
          JMember(FieldChars("httpOnly"), JBool(c.httpOnly)),
          JMember(FieldChars("sameSite"), JStr(c.sameSite)) >>
       \o (IF Has(c, "expirationDate")
           THEN << JMember(FieldChars("expirationDate"), JNumOfInt(c.expirationDate)) >>
           ELSE <<>>)
       \o (IF Truthy(c, "domain")
           THEN << JMember(FieldChars("domain"), JStr(StripDot(c.domain))) >>
           ELSE <<>>))
\* getExportData() with the boxes of the kinds in `checked` ticked, at time t;
\* the digits of t stand for its ISO text
getExportData(d, url, checked, t) ==
  JObj(<< JMember(ExportedAtName, JStr(IntToDigits(t))),
          JMember(FieldChars("domain"), JStr(url.hostname)) >>
       \o (IF "localStorage" \in checked
           THEN << JMember(LocalStorageName, JsonOfMap(d.localStorage)) >> ELSE <<>>)
       \o (IF "sessionStorage" \in checked
           THEN << JMember(SessionStorageName, JsonOfMap(d.sessionStorage)) >> ELSE <<>>)
       \o (IF "cookies" \in checked
           THEN << JMember(CookiesName,
                           JArr([i \in DOMAIN d.cookies |-> ExportCookie(d.cookies[i])])) >>
           ELSE <<>>))
\* the text of the export preview, which copyExportData and downloadExportData hand out
ExportText(d, url, checked, t) == StringifyIndent(getExportData(d, url, checked, t), 0)

Unspecified == <<"u", "n", "s", "p", "e", "c", "i", "f", "i", "e", "d">>
\* cookies of host a as chrome.cookies.getAll returns them
HostOnlyC == [name |-> <<"c">>, value |-> <<"1">>, domain |-> HostA, path |-> Slash,
              secure |-> FALSE, httpOnly |-> FALSE, sameSite |-> Unspecified]
DomainC == [HostOnlyC EXCEPT !.value = <<"2">>, !.domain = <<".">> \o HostA]
ExpiringD == [name |-> <<"d">>, value |-> <<>>, domain |-> HostA, path |-> Slash,
              secure |-> TRUE, httpOnly |-> TRUE, sameSite |-> Strict,
              expirationDate |-> 7200]
\* the content of the page the popup was opened on
RoundJars == {<<>>, <<HostOnlyC>>, <<DomainC>>, <<DomainC, ExpiringD>>, <<HostOnlyC, DomainC>>}
RoundMaps ==
  {EmptyMap, Put(EmptyMap, <<"a">>, <<"1">>),
   Put(Put(EmptyMap, <<"a">>, <<>>), <<"b", " ">>, <<"\"", "\n", "\\">>)}
RoundTab == AllTabs[1]

\* init is through on the page, whose stores are those of mirror d; kind
\* is the selected tab and q the text of the search box
Opened(d, kind, q) ==
  /\ kvStore = [KvStore0 EXCEPT ![RoundTab.id] =
                  [localStorage |-> d.localStorage, sessionStorage |-> d.sessionStorage]]
  /\ cookieStore = [CookieStore0 EXCEPT ![RoundTab.url.hostname] = d.cookies]
  /\ activeTabId = RoundTab.id /\ savedState = NoState /\ now = HourMs
  /\ openTabs = AllTabs
  /\ isFullscreen = FALSE /\ currentTab = kind
  /\ currentTabId = RoundTab.id /\ currentUrl = RoundTab.url /\ browserTabs = <<>>
  /\ data = d /\ searchQuery = q /\ theme = "dark"
  /\ bound = TRUE /\ autoSave = TRUE
  /\ rendered = RenderList(d, kind, q)
  /\ loading = FALSE /\ listShown = (RenderList(d, kind, q).items # {})
  /\ toast = Toast("none")
  /\ tasks = [t \in TaskIds |->
                IF t = 0
                THEN [op |-> "init", pc |-> "done",
                      reqs |-> [s \in Slots |-> IF s \in Kinds THEN Delivered ELSE NoReq],
                      args |-> <<>>, failed |-> {}, ret |-> "none"]
                ELSE IdleTask]
  /\ nOps = 0 /\ nFail = 0
  /\ origin = [k \in Kinds |->
                 LoadedFrom(k, d[k], IF k \in KV THEN RoundTab.id ELSE RoundTab.url)]

InitRound ==
  \E L \in RoundMaps, S \in RoundMaps, jar \in RoundJars :
    /\ Opened([localStorage |-> L, sessionStorage |-> S, cookies |-> jar],
              "localStorage", <<>>)
    /\ fnIn = <<>> /\ fnOut = [n |-> 0] /\ fnPc = "round"

Quiet == \A t \in TaskIds : ~Active(t)

\* the export modal with all boxes ticked: its text is taken (copied or
\* downloaded); n counts the exports, orig is the mirror exported
ExportData ==
  /\ bound /\ Quiet
  /\ nOps < MaxOps
  /\ fnOut.n = nOps
  /\ fnOut' = [n |-> fnOut.n + 1, orig |-> data,
               text |-> ExportText(data, currentUrl, Kinds, now)]
  /\ UNCHANGED <<world, prog, view, async, hist, fnIn, fnPc>>

\* the stores of the page are emptied and the popup, opened anew, shows them
EmptyStore ==
  /\ bound /\ Quiet
  /\ fnOut.n = nOps + 1
  /\ data # EmptyData
  /\ kvStore' = [kvStore EXCEPT ![currentTabId] =
                   [localStorage |-> EmptyMap, sessionStorage |-> EmptyMap]]
  /\ cookieStore' = [cookieStore EXCEPT ![currentUrl.hostname] = <<>>]
  /\ data' = EmptyData
  /\ origin' = [kind \in Kinds |-> LoadedFrom(kind, EmptyData[kind], Ctx(kind))]
  /\ rendered' = RenderList(EmptyData, currentTab, searchQuery)
  /\ listShown' = FALSE
  /\ UNCHANGED <<activeTabId, savedState, now, openTabs, isFullscreen, currentTab,
                 currentTabId, currentUrl, browserTabs, searchQuery, theme, bound,
                 autoSave, loading, toast, async, pure>>

\* the exported text is pasted into the import box, "merge" is unticked
ImportExported ==
  /\ fnOut.n = nOps + 1
  /\ ConfirmImport(fnOut.text, FALSE)

NextRound ==
  \/ ExportData
  \/ EmptyStore
  \/ ImportExported
  \/ \E t \in TaskIds, s \in Slots : Exec(t, s)
  \/ \E t \in TaskIds, s \in Kinds, ok \in BOOLEAN : DeliverLoad(t, s, ok)
  \/ \E t \in TaskIds, ok \in BOOLEAN : SetItemDone(t, ok)
  \/ \E t \in TaskIds, ok \in BOOLEAN : RemoveItemDone(t, ok)
  \/ \E t \in TaskIds, ok \in BOOLEAN : CookieWriteDone(t, ok)
  \/ \E t \in TaskIds, ok \in BOOLEAN : CookieReloadDone(t, ok)

SpecRound == InitRound /\ [][NextRound]_vars

\* import t of the latest export is through: it started on empty stores with
\* the mirror in sync and no adapter call has failed
RoundDone(t) ==
  /\ tasks[t].op = "import" /\ tasks[t].pc = "done"
  /\ nOps = t /\ fnOut.n = t /\ nFail = 0
  /\ tasks[t].args.sync
  /\ \A kind \in Kinds : tasks[t].args.before[kind] = EmptyOf(kind)
\* the cookies of jar are those of orig but for a leading dot of the domain
SameButDomain(jar, orig) ==
  /\ Len(jar) = Len(orig)
  /\ \A i \in DOMAIN jar :
       /\ StripDot(jar[i].domain) = StripDot(orig[i].domain)
       /\ [jar[i] EXCEPT !.domain = <<>>] = [orig[i] EXCEPT !.domain = <<>>]

\* C11: after the export of all kinds is imported in replace mode into empty
\* stores with every adapter call succeeding, localStorage and sessionStorage
\* hold exactly the exported mappings, the cookies are the exported ones but
\* for the leading dot of their domains, and after a second export and import
\* the cookies are those of the first round.
C11_ExportImportRoundTrip ==
  \A t \in TaskIds :
     RoundDone(t) =>
       /\ \A K \in KV : kvStore[currentTabId][K] = fnOut.orig[K] /\ data[K] = fnOut.orig[K]
       /\ SameButDomain(CookieJar(currentUrl), fnOut.orig.cookies)
       /\ t = 2 => CookieJar(currentUrl) = fnOut.orig.cookies

-----------------------------------------------------------------------------
(* The search box on its own: every short query over a mirror of two entries *)

SearchChars == {"a", "b", "B"}
\* Longest key, value and query tried
MaxSearchLen == 2
SearchStrings == Strings(SearchChars, MaxSearchLen)
\* the entry every mirror tried has beside the free one
SearchEntry0 == [key |-> <<"a", "B">>, value |-> <<"b">>]

\* the mirror with the entries es as its content of kind
SearchData(kind, es) ==
  IF kind = "cookies"
  THEN [EmptyData EXCEPT !.cookies =
          [i \in DOMAIN es |-> [HostOnlyC EXCEPT !.name = es[i].key, !.value = es[i].value]]]
  ELSE [EmptyData EXCEPT ![kind] =
          [k \in {es[i].key : i \in DOMAIN es} |->
             es[CHOOSE i \in DOMAIN es : es[i].key = k].value]]

InitSearch ==
  /\ Parked
  /\ fnPc = "typed"
  /\ fnOut = <<>>
  /\ \E kind \in Kinds, q \in SearchStrings, k \in SearchStrings, v \in SearchStrings :
        /\ kind \in KV => k # SearchEntry0.key
        /\ fnIn = [kind |-> kind, q |-> q,
                   entries |-> <<[key |-> k, value |-> v], SearchEntry0>>]

\* the search box's input handler: this.searchQuery = e.target.value and
\* renderCurrentTab()
SearchInput ==
  /\ fnPc = "typed"
  /\ fnOut' = RenderList(SearchData(fnIn.kind, fnIn.entries), fnIn.kind, fnIn.q)
  /\ fnPc' = "rendered"
  /\ UNCHANGED fnIn
  /\ StayParked

\* the clear button: this.searchQuery = '' and renderCurrentTab()
SearchClear ==
  /\ fnPc = "rendered"
  /\ fnIn.q # <<>>
  /\ fnIn' = [fnIn EXCEPT !.q = <<>>]
  /\ fnOut' = RenderList(SearchData(fnIn.kind, fnIn.entries), fnIn.kind, <<>>)
  /\ UNCHANGED fnPc
  /\ StayParked

NextSearch == SearchInput \/ SearchClear
SpecSearch == InitSearch /\ [][NextSearch]_vars

\* the same letter in either case
SameLetter(x, y) == x = y \/ {x, y} = {"a", "A"} \/ {x, y} = {"b", "B"}
\* q occurs in s at some position, letter case apart
Occurs(s, q) ==
  \E i \in 1 .. (Len(s) - Len(q) + 1) :
     \A j \in 1 .. Len(q) : SameLetter(s[i + j - 1], q[j])

\* C12: the rendered list of the current kind holds exactly the entries of the
\* mirror in whose key/name or value the query occurs as a substring, letter
\* case apart; with the empty query it holds every entry.
C12_SearchFilter ==
  fnPc = "rendered" =>
    /\ fnOut.kind = fnIn.kind
    /\ fnOut.items =
         {fnIn.entries[i].key : i \in {j \in DOMAIN fnIn.entries :
             \/ Occurs(fnIn.entries[j].key, fnIn.q)
             \/ Occurs(fnIn.entries[j].value, fnIn.q)}}
    /\ fnIn.q = <<>> => fnOut.items = {fnIn.entries[i].key : i \in DOMAIN fnIn.entries}
\* a query in upper case found in the value only of one entry, in lower case,
\* while the other entry is left out
C12_Witness ==
  /\ fnPc = "rendered"
  /\ fnIn.q = <<"B">>
  /\ fnIn.entries[1] = [key |-> <<"a">>, value |-> <<"a", "b">>]
  /\ fnOut.items = {<<"a">>, <<"a", "B">>}

-----------------------------------------------------------------------------
(* Startup on its own: init() under every saved snapshot, window mode, set  *)
(* of open tabs and active tab tried, up to the end of its loadAllData       *)

NoUrlTab == [id |-> 4, url |-> NoUrl]
\* the tabs chrome.tabs.query({}) may return, in its order
StartTabSets ==
  { AllTabs, <<AllTabs[3]>>, <<AllTabs[3], NoUrlTab, AllTabs[2], AllTabs[1]>> }
\* how long before startup the snapshot was saved
SnapshotAges == {HourMs \div 6, HourMs, 2 * HourMs}
StartNow == 3 * HourMs
\* what saveState may have written
Snapshots ==
  {NoState}
  \cup {StateSnapshot(c[1], 1, AllTabs[1].url, c[2], c[3], StartNow - age) :
          c \in {<<"cookies", <<"a">>, "light">>, <<"sessionStorage", <<>>, "dark">>},
          age \in SnapshotAges}

\* the popup starts with one of tabSets open, any of them (or none) active,
\* in either window mode, over one of the snapshots saved
StartAt(tabSets, saved) ==
  /\ kvStore = KvStore0
  /\ cookieStore = CookieStore0
  /\ openTabs \in tabSets
  /\ activeTabId \in {NoTabId} \cup {openTabs[i].id : i \in DOMAIN openTabs}
  /\ isFullscreen \in BOOLEAN
  /\ savedState \in saved
  /\ now = StartNow
  /\ origin = NoOrigin
  /\ currentTab = "localStorage"
  /\ currentTabId = NoTabId
  /\ currentUrl = NoUrl
  /\ browserTabs = <<>>
  /\ data = EmptyData
  /\ searchQuery = <<>>
  /\ theme = "dark"
  /\ bound = FALSE
  /\ autoSave = FALSE
  /\ rendered = [kind |-> "none", items |-> {}]
  /\ loading = TRUE
  /\ listShown = FALSE
  /\ toast = Toast("none")
  /\ tasks = [t \in TaskIds |->
                IF t = 0
                THEN [op |-> "init", pc |-> "restoreState",
                      reqs |-> Call(Req("storage.get", NoTabId, "", <<>>, <<>>)),
                      args |-> <<>>, failed |-> {}, ret |-> "none"]
                ELSE IdleTask]
  /\ nOps = 0
  /\ nFail = 0
  /\ fnIn = <<>>
  /\ fnOut = <<>>
  /\ fnPc = "off"

InitStart == StartAt(StartTabSets, Snapshots)

NextStart ==
  \/ \E s \in Slots : Exec(0, s)
  \/ \E ok \in BOOLEAN : RestoreStateDone(ok)
  \/ \E ok \in BOOLEAN : GetCurrentTabDone(ok)
  \/ \E ok \in BOOLEAN : GetCurrentTabFallbackDone(ok)
  \/ \E ok \in BOOLEAN : LoadBrowserTabsDone(0, ok)
  \/ \E s \in Kinds, ok \in BOOLEAN : DeliverLoad(0, s, ok)

SpecStart == InitStart /\ [][NextStart]_vars

\* restoreState is through and chrome.storage.local.get had answered
Restored == tasks[0].pc # "restoreState" /\ nFail = 0

\* C13: once restoreState is through, the category, search text and theme are
\* those of the saved snapshot if there is one and it was saved no more than
\* one hour before, and the defaults (localStorage, empty search, the theme
\* as loaded) if there is none or it was saved more than one hour before.
C13_RestoreWithinHour ==
  Restored =>
    IF Has(savedState, "lastSaved") /\ now - savedState.lastSaved <= HourMs
    THEN /\ currentTab = savedState.currentTab
         /\ searchQuery = savedState.searchQuery
         /\ theme = savedState.theme
    ELSE currentTab = "localStorage" /\ searchQuery = <<>> /\ theme = "dark"

\* a tab getCurrentTab takes: it has a URL that is no chrome:// or
\* chrome-extension:// page
Usable(tab) == tab.url # NoUrl /\ tab.url.scheme \notin {"chrome", "chrome-extension"}
\* getCurrentTab is in progress / has returned or thrown
Resolving == tasks[0].pc \in {"getCurrentTab", "getCurrentTab.all"}

C15_FailedInitIsBlank ==
  tasks[0].pc = "failed" =>
    /\ toast = Toast("Failed to initialize")
    /\ \A kind \in Kinds : tasks[0].reqs[kind] = NoReq
    /\ origin = NoOrigin /\ data = EmptyData
    /\ ~bound /\ ~autoSave
    /\ currentTab = "localStorage" /\ searchQuery = <<>> /\ theme = "dark"


-----------------------------------------------------------------------------
(* Startup with the clock running: the 5-second interval and the unload of  *)
(* the page, which startAutoSave hooks to saveState                          *)

\* period of the interval, in ms
TickMs == 5000
\* Number of periods that pass in one run
MaxTicks == 2

\* saveState() at time t
SaveState(t) ==
  StateSnapshot(currentTab, currentTabId, currentUrl, searchQuery, theme, t)

\* the page is open: init runs or has run in it
PopupOpen == tasks[0].pc # "idle"

\* 5 seconds pass; the interval callback runs if startAutoSave installed it
Tick ==
  /\ now < StartNow + MaxTicks * TickMs
  /\ now' = now + TickMs
  /\ savedState' = IF autoSave THEN SaveState(now') ELSE savedState
  /\ UNCHANGED <<kvStore, cookieStore, activeTabId, openTabs, prog, view, async, hist, pure>>

\* the page is closed: the beforeunload listener runs if startAutoSave
\* installed it; handlers, timers and calls in flight go with the page
Unload ==
  /\ PopupOpen
  /\ savedState' = IF autoSave THEN SaveState(now) ELSE savedState
  /\ tasks' = [t \in TaskIds |-> IdleTask]
  /\ autoSave' = FALSE
  /\ bound' = FALSE
  /\ UNCHANGED <<kvStore, cookieStore, activeTabId, now, openTabs, isFullscreen,
                 currentTab, currentTabId, currentUrl, browserTabs, data, searchQuery,
                 theme, view, nOps, nFail, hist, pure>>

NextSave ==
  \/ NextStart
  \/ Tick
  \/ Unload

SpecSave == InitStart /\ [][NextSave]_vars

\* init has run to its end, through its try or through its catch
InitOver == tasks[0].pc \in {"done", "failed"}

\* C29: once init is over, however it ended, each 5-second tick writes the
\* snapshot of the UI state of that moment, changed or not, and so does the
\* closing of the page; restoreState runs once, at the start, and nothing is
\* rendered before it is through.
C29_SavedOnEveryTick ==
  [][/\ (InitOver /\ now' # now) => savedState' = SaveState(now')
     /\ (InitOver /\ ~PopupOpen') => savedState' = SaveState(now)
     /\ tasks[0].pc # "restoreState" => tasks'[0].pc # "restoreState"
     /\ tasks[0].pc = "restoreState" => rendered' = rendered]_vars


-----------------------------------------------------------------------------
(* Properties of switchBrowserTab and of confirmImport's loops (Spec) *)

\* switch t is through; it started with nothing else in progress and no
\* operation has started since
SwitchedAlone(t) ==
  /\ tasks[t].op = "switch" /\ tasks[t].pc = "done"
  /\ tasks[t].args.alone /\ nOps = t

C17_MirrorOfBoundContext ==
  \A kind \in Kinds :
     data[kind] # EmptyOf(kind) => origin[kind] = LoadedFrom(kind, data[kind], Ctx(kind))

\* the keys of the calls of a loop (phase) of a kind that have settled
LogKeys(log, kind, phase) ==
  LET es == SelectSeq(log, LAMBDA e : e.kind = kind /\ e.phase = phase) IN
  [i \in DOMAIN es |-> es[i].key]
\* import t is in its loops, or through them
InLoops(t) == tasks[t].op = "import" /\ tasks[t].args.ki \in 1 .. 3
LoopsDone(t) == tasks[t].op = "import" /\ tasks[t].args.ki = 4

\* C18: while a replacing import is in the write loop of a kind, a remove has
\* settled for every entry the mirror of that kind held when the import came
\* to the kind.
C18_RemovesBeforeWrites ==
  \A t \in TaskIds :
     (InLoops(t) /\ ~tasks[t].args.merge /\ tasks[t].args.phase = "set") =>
        LET a == tasks[t].args
            kind == KindOrder[a.ki]
        IN \A k \in a.starts[kind] :
              \E i \in DOMAIN a.log :
                 a.log[i].kind = kind /\ a.log[i].phase = "remove" /\ a.log[i].key = k
\* a replacing import writes into a kind whose mirror held two entries
C18_Witness ==
  \E t \in TaskIds :
     /\ InLoops(t) /\ ~tasks[t].args.merge /\ tasks[t].args.phase = "set"
     /\ Cardinality(tasks[t].args.starts[KindOrder[tasks[t].args.ki]]) = 2

\* C19: when the loops of a replacing import are through, then whatever
\* failed, for each kind of the payload a remove was submitted for every entry
\* the mirror held and a write for every entry of the payload, in its order.
C19_FailuresDoNotStopImport ==
  \A t \in TaskIds :
     (LoopsDone(t) /\ ~tasks[t].args.merge) =>
        LET a == tasks[t].args IN
        \A kind \in Kinds :
           PayloadHas(a.payload, kind) =>
             /\ a.starts[kind] =
                  {LogKeys(a.log, kind, "remove")[i] :
                     i \in DOMAIN LogKeys(a.log, kind, "remove")}
             /\ LogKeys(a.log, kind, "set") =
                  [i \in DOMAIN PayloadEntries(a.payload, kind) |->
                     TodoKey("set", kind, PayloadEntries(a.payload, kind)[i])]
\* a replacing import is through its loops although its first remove failed
\* and other calls followed it
C19_Witness ==
  \E t \in TaskIds :
     /\ LoopsDone(t) /\ ~tasks[t].args.merge
     /\ Len(tasks[t].args.log) >= 2
     /\ tasks[t].args.log[1].phase = "remove" /\ ~tasks[t].args.log[1].ok

\* the set/remove calls of handler t that are in flight
WritesInFlight(t) ==
  {s \in Slots : tasks[t].reqs[s].api \in WriteApis /\ tasks[t].reqs[s].phase \in {"sent", "done"}}

-----------------------------------------------------------------------------
(* Properties of the reloads: after an import, after a cookie write, and   *)
(* what a key-value edit does instead (Spec)                               *)

\* confirmImport t got a value from JSON.parse
ParsedImport(t) ==
  tasks[t].op = "import" /\ ImportInput(tasks[t].args.text).kind = "parsed"

\* C21: a confirmImport whose text JSON.parse accepted does not end without
\* its reload: it is in its loops, or in the loadAllData that follows the last
\* of them, or through that loadAllData with its count reported; and when it
\* is through, with no operation started since, each kind of the mirror is the
\* store of the bound context, or empty where its load failed.
C21_ImportEndsWithReload ==
  \A t \in TaskIds :
     ParsedImport(t) =>
       /\ tasks[t].pc \in {"setWebStorageItem", "removeWebStorageItem", "setCookie",
                           "removeCookie", "loadCookies", "loadAllData", "done"}
       /\ tasks[t].pc \in {"loadAllData", "done"} => LoopsDone(t)
       /\ (tasks[t].pc = "done" /\ nOps = t) =>
             /\ toast.msg = "Imported"
             /\ \A kind \in Kinds :
                   data[kind] = IF kind \in tasks[t].failed THEN EmptyOf(kind)
                                ELSE StoreOf(kind)

\* the payload has the field of a kind, and the cookies field is an array
FieldGiven(p, kind) ==
  /\ JTruthy(Member(p, KindChars(kind)))
  /\ kind = "cookies" => Member(p, KindChars(kind)).t = "arr"

\* C22: for a kind whose field the payload does not have (or whose cookies
\* field is not an array) an import, merging or replacing, has no set or
\* remove in flight and has settled none, and when no other operation was in
\* progress as the import began and none has started since, the store of that
\* kind is what it was when the import began.
C22_ImportTouchesGivenKinds ==
  \A t \in TaskIds :
     (tasks[t].op = "import" /\ tasks[t].args.ki >= 1) =>
        \A kind \in Kinds :
           ~FieldGiven(tasks[t].args.payload, kind) =>
              /\ \A i \in DOMAIN tasks[t].args.log : tasks[t].args.log[i].kind # kind
              /\ \A s \in WritesInFlight(t) : tasks[t].reqs[s].type # kind
              /\ (tasks[t].args.alone /\ nOps = t) =>
                    StoreOf(kind) = tasks[t].args.before[kind]
\* a replacing import whose cookies field is an object is through, and the
\* cookie jar of the page holds a cookie
C22_Witness ==
  \E t \in TaskIds :
     /\ tasks[t].op = "import" /\ tasks[t].pc = "done" /\ nOps = t
     /\ tasks[t].args.text = TextNoArray /\ ~tasks[t].args.merge
     /\ CookieJar(currentUrl) # <<>>

\* no call is in flight for handler t after this step
NoCallAfter(t) == \A s \in Slots : tasks'[t].reqs[s].api = "none"

\* C23: the step in which saveItem's setWebStorageItem succeeds sets exactly
\* the written key of the written kind in the mirror to the written value,
\* leaves every other key, the other key-value kind and the cookies as they
\* were, renders, and ends the save with no load (no call at all) issued.
C23_EditUpsertsMirror ==
  [][\A t \in TaskIds :
       LET r == tasks[t].reqs["call"] IN
       (tasks[t].op = "save" /\ r.api = "storage.setItem" /\ Succeeded(t, "call")) =>
          /\ \A kind \in Kinds :
                data'[kind] = IF kind = r.type THEN Put(data[kind], r.key, r.val)
                              ELSE data[kind]
          /\ tasks'[t].pc = "done" /\ tasks'[t].ret = "true" /\ NoCallAfter(t)
          /\ \A u \in TaskIds \ {t} : SameTask(tasks'[u], tasks[u])
          /\ rendered' = RenderList(data', currentTab, searchQuery)]_vars
\* a save of a second key into a kind that holds one has succeeded
C23_Witness ==
  \E t \in TaskIds, kind \in KV :
     /\ tasks[t].op = "save" /\ tasks[t].pc = "done" /\ tasks[t].ret = "true"
     /\ nOps = t /\ currentTab = kind
     /\ Cardinality(DOMAIN data[kind]) = 2

\* handler t is in setCookie / removeCookie, its chrome.cookies call in flight
InCookieWrite(t) == tasks[t].pc \in {"setCookie", "removeCookie"}

\* C24: the step in which the chrome.cookies.set / remove of setCookie /
\* removeCookie resolves reports nothing and renders nothing: it issues
\* cookies.getAll for the current URL; the browser answers it with the jar of
\* that URL; the step in which that answer arrives puts it into the cookies of
\* the mirror (empties them if it is a rejection), leaves both key-value kinds
\* alone, and only then returns true and lets the caller render; a rejected
\* set / remove returns false with no reload.
C24_CookieWriteReloads ==
  [][\A t \in TaskIds :
       LET r == tasks[t].reqs["call"]
           r1 == tasks'[t].reqs["call"]
       IN
       /\ (InCookieWrite(t) /\ Succeeded(t, "call")) =>
             /\ tasks'[t].pc = "loadCookies" /\ tasks'[t].ret = tasks[t].ret
             /\ r1.api = "cookies.getAll" /\ r1.phase = "sent" /\ r1.ctx = currentUrl
             /\ data' = data /\ rendered' = rendered /\ toast' = toast
       /\ (tasks[t].pc = "loadCookies" /\ r.phase = "sent" /\ r1.phase = "done") =>
             r1.res = CookieJar(r.ctx)
       /\ (tasks[t].pc = "loadCookies" /\ (Succeeded(t, "call") \/ Failed(t, "call"))) =>
             /\ data'.cookies = IF Succeeded(t, "call") THEN r.res ELSE <<>>
             /\ \A kind \in KV : data'[kind] = data[kind]
             /\ tasks'[t].ret = "true"
       /\ (InCookieWrite(t) /\ Failed(t, "call")) =>
             tasks'[t].ret = "false" /\ data' = data]_vars
\* a cookie was saved and the mirror holds the reloaded jar with it
C24_Witness ==
  \E t \in TaskIds :
     /\ tasks[t].op = "save" /\ tasks[t].pc = "done" /\ tasks[t].ret = "true" /\ nOps = t
     /\ currentTab = "cookies"
     /\ Len(data.cookies) = 2 /\ data.cookies = CookieJar(currentUrl)


\* the loadAllData of handler t has applied the answer of one of its loads
\* and waits for another
PartlyLoaded(t) ==
  /\ tasks[t].pc = "loadAllData"
  /\ \E s \in Kinds : tasks[t].reqs[s].phase = "delivered"
  /\ \E s \in Kinds : tasks[t].reqs[s].phase \in {"sent", "done"}

\* C27: the three loads of a loadAllData are issued in one step, and in no
\* step that begins with some of them applied and ends with one still
\* awaited is the list written.
C27_NoRenderWhileLoading ==
  [][\A t \in TaskIds :
       /\ (tasks[t].pc # "loadAllData" /\ tasks'[t].pc = "loadAllData") =>
             \A s \in Kinds : tasks'[t].reqs[s].phase = "sent"
       /\ (PartlyLoaded(t) /\ tasks'[t].pc = "loadAllData") => rendered' = rendered]_vars


\* saveItem t has ended with setWebStorageItem's true: its entry was upserted
Confirmed(t) ==
  /\ tasks[t].op = "save"
  /\ tasks[t].pc = "done"
  /\ tasks[t].ret = "true"
  /\ tasks[t].args # <<>>

\* C30: an entry that a confirmed edit upserted, and that the page of the
\* bound context still holds as written, stays in the mirror when the answer
\* of a load of that context is applied.
C30_EditSurvivesOlderLoad ==
  [][\A t \in TaskIds, u \in TaskIds, s \in KV :
       (/\ Confirmed(t)
        /\ tasks[t].args.kind = s
        /\ tasks[u].pc = "loadAllData"
        /\ tasks[u].reqs[s].phase = "done"
        /\ tasks'[u].reqs[s].phase = "delivered"
        /\ tasks[u].reqs[s].ctx = currentTabId
        /\ Has(data[s], tasks[t].args.key)
        /\ data[s][tasks[t].args.key] = tasks[t].args.value
        /\ origin[s][tasks[t].args.key] = currentTabId
        /\ Has(kvStore[currentTabId][s], tasks[t].args.key)
        /\ kvStore[currentTabId][s][tasks[t].args.key] = tasks[t].args.value)
       => /\ Has(data'[s], tasks[t].args.key)
          /\ data'[s][tasks[t].args.key] = tasks[t].args.value]_vars


-----------------------------------------------------------------------------
(* init, refresh and switchBrowserTab with every adapter call settling in   *)
(* the end, and any of the loads rejecting                                   *)

\* the answer of load s of handler t is delivered; any number of loads reject
LoadAnswers(t, s, ok) ==
  /\ tasks[t].reqs[s].phase = IF ok THEN "done" ELSE "sent"
  /\ nFail' = nFail
  /\ LoadSettles(t, s, ok)

\* an adapter call is executed, or its answer is delivered
Settles ==
  \/ \E t \in TaskIds, s \in Slots : Exec(t, s)
  \/ \E ok \in BOOLEAN : RestoreStateDone(ok)
  \/ \E ok \in BOOLEAN : GetCurrentTabDone(ok)
  \/ \E ok \in BOOLEAN : GetCurrentTabFallbackDone(ok)
  \/ \E t \in TaskIds, ok \in BOOLEAN : LoadBrowserTabsDone(t, ok)
  \/ \E t \in TaskIds, s \in Kinds, ok \in BOOLEAN : LoadAnswers(t, s, ok)

\* Number of user operations in one run of SpecLive
MaxLiveOps == 1

NextLive ==
  \/ Settles
  \/ nOps < MaxLiveOps /\ Refresh
  \/ \E i \in DOMAIN browserTabs : nOps < MaxLiveOps /\ SwitchBrowserTab(browserTabs[i].id)

\* the user may stop acting; a call in flight is answered in the end
SpecLive == Init /\ [][NextLive]_vars /\ WF_vars(Settles)

\* C28: every loadAllData in progress comes to its end, and the loading
\* indicator, when up, comes down; a loadAllData ends only with its three
\* loads returned, as done and not as failed, and with the list rendered from
\* the mirror as the last load left it.
C28_LoadsTerminate ==
  /\ \A t \in TaskIds : (tasks[t].pc = "loadAllData") ~> (tasks[t].pc = "done")
  /\ loading ~> ~loading
  /\ [][\A t \in TaskIds :
          (tasks[t].pc = "loadAllData" /\ tasks'[t].pc # "loadAllData") =>
             /\ tasks'[t].pc = "done"
             /\ LoadAllSettled(tasks'[t].reqs)
             /\ rendered' = RenderList(data', currentTab, searchQuery)]_vars
\* a switchBrowserTab whose three loads were all rejected is through, and the
\* loading indicator is down
C28_Witness ==
  \E t \in TaskIds :
     /\ tasks[t].op = "switch" /\ tasks[t].pc = "done"
     /\ tasks[t].failed = Kinds
     /\ ~loading


-----------------------------------------------------------------------------
(* The edit modal on its own: items are added and edited on a loaded page   *)

\* the content of the page
EditMaps == {EmptyMap, Put(EmptyMap, <<"a">>, <<"1">>)}
EditJars == {<<>>, <<DomainC, ExpiringD>>}

InitEdit ==
  \E L \in EditMaps, S \in EditMaps, jar \in EditJars, kind \in Kinds :
    /\ Opened([localStorage |-> L, sessionStorage |-> S, cookies |-> jar], kind, <<>>)
    /\ fnIn = <<>> /\ fnOut = <<>> /\ fnPc = "edit"

NextEdit ==
  \/ \E k \in FormKeys, v \in Vals : SaveItem(k, v)
  \/ \E k \in rendered.items, v \in Vals : EditItem(k, v)
  \/ \E t \in TaskIds : Exec(t, "call")
  \/ \E t \in TaskIds, ok \in BOOLEAN : SetItemDone(t, ok)
  \/ \E t \in TaskIds, ok \in BOOLEAN : CookieWriteDone(t, ok)
  \/ \E t \in TaskIds, ok \in BOOLEAN : CookieReloadDone(t, ok)

SpecEdit == InitEdit /\ [][NextEdit]_vars

\* saveItem t returns in this step, its write having succeeded
SaveSucceeds(t) ==
  /\ tasks[t].op = "save" /\ Active(t)
  /\ tasks'[t].pc = "done" /\ tasks'[t].ret = "true"

\* C31: the step in which a saveItem ends with success shows 'Updated' when
\* its modal was opened by openEditModal and 'Added' when it was opened by
\* openAddModal.
C31_NoticeTellsEditFromAdd ==
  [][\A t \in TaskIds :
       SaveSucceeds(t) =>
          toast' = IF ItemSet(tasks[t].args.editingItem) THEN Toast("Updated")
                   ELSE Toast("Added")]_vars


-----------------------------------------------------------------------------
(* Startup among tabs that are no pages: init() to the end of its            *)
(* loadAllData, with an about:blank tab open                                  *)

\* a tab showing about:blank
AboutTab == [id |-> 5, url |-> Url("about", <<>>)]
TabSets ==
  { AllTabs, <<AllTabs[3], AllTabs[2], AllTabs[1]>>,
    <<AllTabs[3], AboutTab, AllTabs[1]>>, <<AboutTab, AllTabs[1]>> }

InitTabs == StartAt(TabSets, {NoState})

\* the browser can answer call r: a read of web storage or of cookies is
\* answered for a page only, and rejected for any other tab
Answerable(r) ==
  CASE r.api = "storage.read" -> r.ctx \in PageTabs
    [] r.api = "cookies.getAll" -> r.ctx.hostname \in DOMAIN cookieStore
    [] OTHER -> TRUE

NextTabs ==
  \/ \E s \in Slots : Answerable(tasks[0].reqs[s]) /\ Exec(0, s)
  \/ \E ok \in BOOLEAN : RestoreStateDone(ok)
  \/ \E ok \in BOOLEAN : GetCurrentTabDone(ok)
  \/ \E ok \in BOOLEAN : GetCurrentTabFallbackDone(ok)
  \/ \E ok \in BOOLEAN : LoadBrowserTabsDone(0, ok)
  \/ \E s \in Kinds, ok \in BOOLEAN : LoadAnswers(0, s, ok)

SpecTabs == InitTabs /\ [][NextTabs]_vars

\* C32: in fullscreen mode, when init has run to its end with no
\* chrome.tabs / chrome.storage call rejected, the tab bound as context is
\* one of browserTabs.
C32_BoundTabIsOffered ==
  (isFullscreen /\ tasks[0].pc = "done" /\ nFail = 0) =>
     \E i \in DOMAIN browserTabs : browserTabs[i].id = currentTabId

-----------------------------------------------------------------------------
(* getExportData on its own: every choice of the export boxes over the      *)
(* mirrors of SpecRound                                                     *)

\* openExportModal / a change of an export box: updateExportPreview() calls
\* getExportData() with the boxes of `checked` ticked
UpdateExportPreview(checked) ==
  /\ fnOut.n = 0
  /\ fnOut' = [n |-> 1, checked |-> checked,
               result |-> getExportData(data, currentUrl, checked, now)]
  /\ UNCHANGED <<world, prog, view, async, hist, fnIn, fnPc>>

NextExport == \E checked \in SUBSET Kinds : UpdateExportPreview(checked)

SpecExport == InitRound /\ [][NextExport]_vars

\* the members of an exported object are those of mapping m, each once
SameMapping(v, m) ==
  /\ v.t = "obj" /\ Len(v.m) = Cardinality(DOMAIN m)
  /\ \A k \in DOMAIN m : Member(v, k) = JStr(m[k])
\* an exported cookie is mirrored cookie c with a leading dot of the domain
\* taken off
SameCookieNoDot(v, c) ==
  /\ Member(v, FieldChars("name")) = JStr(c.name)
  /\ Member(v, FieldChars("value")) = JStr(c.value)
  /\ Member(v, FieldChars("path")) = JStr(c.path)
  /\ Member(v, FieldChars("domain")) =
       JStr(IF Head(c.domain) = "." THEN Tail(c.domain) ELSE c.domain)

\* C25: what getExportData returns has the field of a kind exactly if the
\* box of the kind is ticked; a key-value field is the mirror's mapping, the
\* cookies field lists the mirror's cookies in order, a leading dot of each
\* domain taken off; and the call issues no adapter call and changes neither
\* the mirror (its cookies' domains included) nor anything else of the popup.
C25_ExportIsPure ==
  /\ [](fnOut.n = 1 =>
          LET e == fnOut.result IN
          /\ \A kind \in Kinds :
                Member(e, KindChars(kind)).t # "undefined" <=> kind \in fnOut.checked
          /\ \A kind \in KV \cap fnOut.checked :
                SameMapping(Member(e, KindChars(kind)), data[kind])
          /\ "cookies" \in fnOut.checked =>
                LET cs == Member(e, CookiesName) IN
                /\ cs.t = "arr" /\ Len(cs.e) = Len(data.cookies)
                /\ \A i \in DOMAIN cs.e : SameCookieNoDot(cs.e[i], data.cookies[i]))
  /\ [][fnOut'.n # fnOut.n =>
          /\ data' = data /\ tasks' = tasks
          /\ world' = world /\ prog' = prog /\ view' = view]_vars
\* the cookies alone were exported from a mirror that has a cookie with a
\* dotted domain and an entry in localStorage
C25_Witness ==
  /\ fnOut.n = 1 /\ fnOut.checked = {"cookies"}
  /\ data.localStorage # EmptyMap
  /\ \E i \in DOMAIN data.cookies : Head(data.cookies[i].domain) = "."

-----------------------------------------------------------------------------
(* switchTab on its own: the kind tabs are clicked over a mirror and a query *)
(* that stay as they are                                                    *)

\* what the search box may hold
SwitchQueries == {<<>>, <<"a">>, <<"A">>, <<"1">>, <<"c">>}

InitSwitch ==
  \E L \in RoundMaps, S \in RoundMaps, jar \in RoundJars, kind \in Kinds,
     q \in SwitchQueries :
    /\ Opened([localStorage |-> L, sessionStorage |-> S, cookies |-> jar], kind, q)
    /\ fnIn = [data |-> [localStorage |-> L, sessionStorage |-> S, cookies |-> jar],
               q |-> q, kind |-> kind]
    /\ fnOut = <<>> /\ fnPc = "switch"

NextSwitch == \E kind \in Kinds : SwitchTab(kind)

SpecSwitch == InitSwitch /\ [][NextSwitch]_vars

\* the keys / names of the entries of kind in d in whose key / name or value
\* q occurs, letter case apart
Filtered(d, kind, q) ==
  IF kind = "cookies"
  THEN {d.cookies[i].name : i \in {j \in DOMAIN d.cookies :
           Occurs(d.cookies[j].name, q) \/ Occurs(d.cookies[j].value, q)}}
  ELSE {k \in DOMAIN d[kind] : Occurs(k, q) \/ Occurs(d[kind][k], q)}

\* C26: after any switchTab calls over a mirror and a query that nothing else
\* changes, the list shown is that of the kind selected last, filtered by the
\* query as if the kind had been filtered directly; the mirror and the query
\* are what they were, and a switchTab step changes neither.
C26_SearchCommutesWithSwitch ==
  /\ [](nOps >= 1 =>
          /\ data = fnIn.data /\ searchQuery = fnIn.q
          /\ rendered.kind = currentTab
          /\ rendered.items = Filtered(fnIn.data, currentTab, fnIn.q)
          /\ listShown = (Filtered(fnIn.data, currentTab, fnIn.q) # {}))
  /\ [][currentTab' # currentTab =>
          /\ data' = data /\ searchQuery' = searchQuery
          /\ kvStore' = kvStore /\ cookieStore' = cookieStore /\ tasks' = tasks]_vars
\* the kind first selected is selected again after a switch to another one,
\* with a query that leaves out one of its two entries
C26_Witness ==
  /\ nOps = 2 /\ currentTab = fnIn.kind
  /\ fnIn.q # <<>>
  /\ Cardinality(DOMAIN fnIn.data.localStorage) = 2 /\ currentTab = "localStorage"
  /\ Cardinality(rendered.items) = 1


====
